---- MODULE Spec2Model ----
(***************************************************************************)
(* Authentication core of personal-website-backend: the brute-force       *)
(* protector and its two middlewares, and the JWT manager with secret      *)
(* rotation.  Times are whole seconds.  ZeroTime is Go's time.Time{} and   *)
(* lies before every instant the process observes.                         *)
(***************************************************************************)
EXTENDS Integers, Sequences, FiniteSets, TLC

\* ---- brute force protection configuration ----
maxFailedAttempts == 5
initialBlockDuration == 30
blockMultiplier == 2
maxBlockDuration == 86400
cleanupInterval == 3600
failedAttemptsTimeout == 1800

\* ---- bounds of the model ----
MaxFailures == 11
MaxCapFailures == 17
MaxTicks == 3
MaxJWTTicks == 5
MaxTokens == 2
MaxRequests == 6
MaxConcTicks == 4
MaxConcTokens == 1
MaxAuthRequests == 3
MaxAdminTicks == 3
MaxAdminTokens == 1
MaxPasswordLen == 2
MaxNotifyRequests == 2
MaxNotifyTicks == 1
MaxRaceRequests == 6
MaxRaceTicks == 2
MaxKeyFailures == 3
MaxKeyTicks == 1

ZeroTime == 0
StartTime == ZeroTime + 1
\* clock advances offered to the protector: inside the first block,
\* and up to the idle window of the sweep
Ticks == {15, failedAttemptsTimeout}

IPs == {<<"1.2.3.4">>}
Users == {<<"alice">>, <<"bob">>}
CapUsers == {<<"alice">>}
LoginUsers == {<<"alice">>}
LoginTicks == {15}
\* inside the first block, and up to the first sweep
RaceTicks == {15, cleanupInterval}
Pairs == IPs \X Users
\* addresses and usernames spelled character by character: the IPv6
\* addresses ::1 and ::1:2, the usernames "x" and "2:x"
KeyIPs == {<<":", ":", "1">>, <<":", ":", "1", ":", "2">>}
KeyUsers == {<<"x">>, <<"2", ":", "x">>}
KeyPairs == KeyIPs \X KeyUsers

VARIABLES
    attempts,       \* BruteForceProtector.attempts   (key: ip + ":" + username)
    ipAttempts,     \* BruteForceProtector.ipAttempts (key: ip)
    nextCleanup,    \* next tick of the cleanup ticker
    now,            \* time.Now()
    nticks,         \* number of clock advances so far
    acctHist,       \* history: per (ip, username), calls of RecordFailedAttempt
                    \* since its record was last absent, and the time of the last
    ipHist,         \* history: per ip, the same for the IP-scope record
    config,         \* config.Config (the fields the JWT manager reads)
    currentSecret,  \* JWTManager.currentSecret
    previousSecret, \* JWTManager.previousSecret
    secretCreatedAt, \* JWTManager.secretCreatedAt
    nextRotation,   \* next tick of the rotation ticker
    tokens,         \* access tokens issued so far
    secretHist,     \* history: every value currentSecret has had, in order
    reqs,           \* login requests in the middleware pipeline
    nreq,           \* number of login requests received so far
    mutex,          \* JWTManager.mutex
    rot,            \* the goroutine of rotateSecretsPeriodically
    gen,            \* a call of JWTManager.GenerateToken in flight
    ver,            \* a call of JWTManager.VerifyToken in flight
    telegramEnabled, \* TelegramService.enabled
    svc,            \* the call of authService.Login for the request being handled
    adminReq,       \* a request to a route under /api/v1/admin
    pw              \* one run of HashPassword followed by VerifyPassword

protVars == <<attempts, ipAttempts, acctHist, ipHist>>
clockVars == <<now, nticks>>
jwtVars == <<config, currentSecret, previousSecret, secretCreatedAt, nextRotation,
             tokens, secretHist>>
reqVars == <<reqs, nreq>>
concVars == <<mutex, rot, gen, ver>>
svcVars == <<telegramEnabled, svc>>
adminVars == <<adminReq>>
pwVars == <<pw>>
extVars == <<concVars, svcVars, adminVars, pwVars>>
vars == <<protVars, nextCleanup, clockVars, jwtVars, reqVars, extVars>>

\* ------------------------------------------------------------------
\* time.Time comparisons
Before(a, b) == a < b
After(a, b) == a > b

Min(a, b) == IF a < b THEN a ELSE b

\* key := ip + ":" + username
Key(ip, username) == ip \o <<":">> \o username

NewAttempt(ip, username) ==
    [IP |-> ip, Username |-> username, FailedAttempts |-> 0,
     LastFailedAt |-> ZeroTime, BlockedUntil |-> ZeroTime]

\* delete(m, k)
Delete(m, k) == [x \in DOMAIN m \ {k} |-> m[x]]

NoHist == [n |-> 0, at |-> ZeroTime]

\* faulty variant: blocks only above the threshold
AccountBlock_StrictThreshold(attempt, t) ==
    IF attempt.FailedAttempts > maxFailedAttempts
    THEN LET prevDuration == attempt.BlockedUntil - attempt.LastFailedAt
             blockDuration ==
                 IF After(attempt.BlockedUntil, t)
                 THEN Min(prevDuration * blockMultiplier, maxBlockDuration)
                 ELSE initialBlockDuration
         IN [attempt EXCEPT !.BlockedUntil = t + blockDuration]
    ELSE attempt

\* faulty variant: the doubled duration is not capped
AccountBlock_NoCap(attempt, t) ==
    IF attempt.FailedAttempts >= maxFailedAttempts
    THEN LET prevDuration == attempt.BlockedUntil - attempt.LastFailedAt
             blockDuration ==
                 IF After(attempt.BlockedUntil, t)
                 THEN prevDuration * blockMultiplier
                 ELSE initialBlockDuration
         IN [attempt EXCEPT !.BlockedUntil = t + blockDuration]
    ELSE attempt

\* faulty variant: a failure during a block halves what is left of it
AccountBlock_Halving(attempt, t) ==
    IF attempt.FailedAttempts >= maxFailedAttempts
    THEN LET prevDuration == attempt.BlockedUntil - attempt.LastFailedAt
             blockDuration ==
                 IF After(attempt.BlockedUntil, t)
                 THEN Min(prevDuration \div blockMultiplier, maxBlockDuration)
                 ELSE initialBlockDuration
         IN [attempt EXCEPT !.BlockedUntil = t + blockDuration]
    ELSE attempt

\* faulty variant: a failure after the block has run out starts the count
\* again
AccountBlock_ResetOnExpiry(attempt, t) ==
    IF attempt.BlockedUntil # ZeroTime /\ ~After(attempt.BlockedUntil, t)
    THEN [attempt EXCEPT !.FailedAttempts = 1, !.BlockedUntil = ZeroTime]
    ELSE IF attempt.FailedAttempts >= maxFailedAttempts
    THEN LET prevDuration == attempt.BlockedUntil - attempt.LastFailedAt
             blockDuration ==
                 IF After(attempt.BlockedUntil, t)
                 THEN Min(prevDuration * blockMultiplier, maxBlockDuration)
                 ELSE initialBlockDuration
         IN [attempt EXCEPT !.BlockedUntil = t + blockDuration]
    ELSE attempt

\* "Check if account should be blocked": attempt already carries the
\* incremented counter and LastFailedAt = t
AccountBlock(attempt, t) ==
    IF attempt.FailedAttempts >= maxFailedAttempts
    THEN LET prevDuration == attempt.BlockedUntil - attempt.LastFailedAt
             blockDuration ==
                 IF After(attempt.BlockedUntil, t)
                 THEN Min(prevDuration * blockMultiplier, maxBlockDuration)
                 ELSE initialBlockDuration
         IN [attempt EXCEPT !.BlockedUntil = t + blockDuration]
    ELSE attempt

\* faulty variant: the ip is blocked at the account threshold
IPBlock_AccountThreshold(ipAttempt, t) ==
    IF ipAttempt.FailedAttempts >= maxFailedAttempts
    THEN LET prevDuration == ipAttempt.BlockedUntil - ipAttempt.LastFailedAt
             blockDuration ==
                 IF After(ipAttempt.BlockedUntil, t)
                 THEN Min(prevDuration * blockMultiplier, maxBlockDuration)
                 ELSE initialBlockDuration * 2
         IN [ipAttempt EXCEPT !.BlockedUntil = t + blockDuration]
    ELSE ipAttempt

\* "Check if IP should be blocked (more severe threshold)"
IPBlock(ipAttempt, t) ==
    IF ipAttempt.FailedAttempts >= maxFailedAttempts * 2
    THEN LET prevDuration == ipAttempt.BlockedUntil - ipAttempt.LastFailedAt
             blockDuration ==
                 IF After(ipAttempt.BlockedUntil, t)
                 THEN Min(prevDuration * blockMultiplier, maxBlockDuration)
                 ELSE initialBlockDuration * 2
         IN [ipAttempt EXCEPT !.BlockedUntil = t + blockDuration]
    ELSE ipAttempt

\* faulty variant: a block that ends exactly now still counts
IsBlocked_NotBefore(ip, username) ==
    LET key == Key(ip, username) IN
    IF key \in DOMAIN attempts /\ ~Before(attempts[key].BlockedUntil, now)
    THEN [blocked |-> TRUE, until |-> attempts[key].BlockedUntil]
    ELSE IF ip \in DOMAIN ipAttempts /\ ~Before(ipAttempts[ip].BlockedUntil, now)
    THEN [blocked |-> TRUE, until |-> ipAttempts[ip].BlockedUntil]
    ELSE [blocked |-> FALSE, until |-> ZeroTime]

\* IsBlocked(ip, username) (bool, time.Time); the two reads of the clock
\* fall in the same second
IsBlocked(ip, username) ==
    LET key == Key(ip, username) IN
    IF key \in DOMAIN attempts /\ After(attempts[key].BlockedUntil, now)
    THEN [blocked |-> TRUE, until |-> attempts[key].BlockedUntil]
    ELSE IF ip \in DOMAIN ipAttempts /\ After(ipAttempts[ip].BlockedUntil, now)
    THEN [blocked |-> TRUE, until |-> ipAttempts[ip].BlockedUntil]
    ELSE [blocked |-> FALSE, until |-> ZeroTime]

RecordFailedAttempt(ip, username) ==
    LET key == Key(ip, username)
        attempt0 == IF key \in DOMAIN attempts THEN attempts[key]
                    ELSE NewAttempt(ip, username)
        attempt == [attempt0 EXCEPT !.FailedAttempts = @ + 1, !.LastFailedAt = now]
        ipAttempt0 == IF ip \in DOMAIN ipAttempts THEN ipAttempts[ip]
                      ELSE NewAttempt(ip, <<>>)
        ipAttempt == [ipAttempt0 EXCEPT !.FailedAttempts = @ + 1, !.LastFailedAt = now]
    IN /\ attempts' = (key :> AccountBlock(attempt, now)) @@ attempts
       /\ ipAttempts' = (ip :> IPBlock(ipAttempt, now)) @@ ipAttempts
       /\ acctHist' = [acctHist EXCEPT ![<<ip, username>>] = [n |-> @.n + 1, at |-> now]]
       /\ ipHist' = [ipHist EXCEPT ![ip] = [n |-> @.n + 1, at |-> now]]

\* faulty variant: a success also clears the IP-scope record
RecordSuccessfulAttempt_ClearsIP(ip, username) ==
    /\ attempts' = Delete(attempts, Key(ip, username))
    /\ ipAttempts' = Delete(ipAttempts, ip)
    /\ acctHist' = [acctHist EXCEPT ![<<ip, username>>] = NoHist]
    /\ ipHist' = [ipHist EXCEPT ![ip] = NoHist]

RecordSuccessfulAttempt(ip, username) ==
    /\ attempts' = Delete(attempts, Key(ip, username))
    /\ acctHist' = [acctHist EXCEPT ![<<ip, username>>] = NoHist]
    /\ UNCHANGED <<ipAttempts, ipHist>>

\* faulty variant: an expired block alone is enough to delete
Stale_ExpiredOnly(attempt, t) ==
    Before(attempt.BlockedUntil, t)

\* the deletion test of cleanup, the same for both maps
Stale(attempt, t) ==
    /\ Before(attempt.BlockedUntil, t)
    /\ Before(attempt.LastFailedAt + failedAttemptsTimeout, t)

\* one run of cleanup, started by the ticker of startCleanupTask
cleanup ==
    /\ now >= nextCleanup
    /\ attempts' = [k \in {x \in DOMAIN attempts : ~Stale(attempts[x], now)} |-> attempts[k]]
    /\ ipAttempts' = [k \in {x \in DOMAIN ipAttempts : ~Stale(ipAttempts[x], now)} |-> ipAttempts[k]]
    /\ nextCleanup' = nextCleanup + cleanupInterval
    /\ acctHist' = [p \in DOMAIN acctHist |->
                      IF Key(p[1], p[2]) \in DOMAIN attempts /\ Stale(attempts[Key(p[1], p[2])], now)
                      THEN NoHist ELSE acctHist[p]]
    /\ ipHist' = [ip \in DOMAIN ipHist |->
                      IF ip \in DOMAIN ipAttempts /\ Stale(ipAttempts[ip], now)
                      THEN NoHist ELSE ipHist[ip]]

\* the wall clock advances by d seconds
Tick(d) ==
    /\ now' = now + d
    /\ nticks' = nticks + 1

IPCount(ip) == IF ip \in DOMAIN ipAttempts THEN ipAttempts[ip].FailedAttempts ELSE 0

\* GetBruteForceProtector: empty maps, cleanup ticker started
InitProtector ==
    /\ attempts = << >>
    /\ ipAttempts = << >>
    /\ nextCleanup = StartTime + cleanupInterval
    /\ acctHist = [p \in Pairs |-> NoHist]
    /\ ipHist = [ip \in IPs |-> NoHist]

InitClock ==
    /\ now = StartTime
    /\ nticks = 0

\* GetBruteForceProtector, with the history kept for KeyPairs
InitKeyProtector ==
    /\ attempts = << >>
    /\ ipAttempts = << >>
    /\ nextCleanup = StartTime + cleanupInterval
    /\ acctHist = [p \in KeyPairs |-> NoHist]
    /\ ipHist = [ip \in KeyIPs |-> NoHist]

\* ------------------------------------------------------------------
\* JWT manager

\* a secret is an opaque byte string of len bytes; NoSecret is the nil
\* slice; the configured secrets are the defaults of LoadConfig
NoSecret == [src |-> "nil", id |-> 0, len |-> 0]
ConfigSecret == [src |-> "JWT_SECRET", id |-> 0, len |-> 15]
RefreshSecret == [src |-> "JWT_REFRESH_SECRET", id |-> 0, len |-> 23]

\* rand.Read(newSecret): 32 random bytes, a value no earlier secret had
NewSecret == [src |-> "rand", id |-> Len(secretHist), len |-> 32]

DefaultConfig ==
    [JWTSecret |-> ConfigSecret, JWTExpiration |-> 86400,
     JWTRefreshSecret |-> RefreshSecret, JWTRefreshExpiration |-> 604800]

\* configurations: the default one, and one with long-lived access tokens
Configs == {DefaultConfig, [DefaultConfig EXCEPT !.JWTExpiration = 2592000]}

\* rotationInterval: time.Hour * 24 * 7
rotationInterval == 604800

Subjects ==
    {[UserID |-> "1", Username |-> "admin", IsAdmin |-> TRUE],
     [UserID |-> "2", Username |-> "guest", IsAdmin |-> FALSE]}

JWTTicks == {86400, rotationInterval \div 2}

\* NewJWTManager(cfg)
InitJWTManager ==
    /\ currentSecret = config.JWTSecret
    /\ previousSecret = NoSecret
    /\ secretCreatedAt = StartTime
    /\ nextRotation = StartTime + rotationInterval \div 2
    /\ tokens = {}
    /\ secretHist = <<config.JWTSecret>>

\* faulty variant: current is overwritten before it is saved
rotateSecrets_Overwrite(ok) ==
    IF ok
    THEN /\ currentSecret' = NewSecret
         /\ previousSecret' = NewSecret
         /\ secretCreatedAt' = now
         /\ secretHist' = Append(secretHist, NewSecret)
    ELSE UNCHANGED <<currentSecret, previousSecret, secretCreatedAt, secretHist>>

\* rotateSecrets; ok is whether rand.Read succeeded
rotateSecrets(ok) ==
    IF ok
    THEN /\ previousSecret' = currentSecret
         /\ currentSecret' = NewSecret
         /\ secretCreatedAt' = now
         /\ secretHist' = Append(secretHist, NewSecret)
    ELSE UNCHANGED <<currentSecret, previousSecret, secretCreatedAt, secretHist>>

\* faulty variant: rotates as soon as the secret is half an interval old
rotateSecretsPeriodically_Eager ==
    /\ now >= nextRotation
    /\ nextRotation' = nextRotation + rotationInterval \div 2
    /\ IF now - secretCreatedAt >= rotationInterval \div 2
       THEN \E ok \in BOOLEAN : rotateSecrets(ok)
       ELSE UNCHANGED <<currentSecret, previousSecret, secretCreatedAt, secretHist>>
    /\ UNCHANGED <<config, tokens>>

\* one iteration of the loop of rotateSecretsPeriodically
rotateSecretsPeriodically ==
    /\ now >= nextRotation
    /\ nextRotation' = nextRotation + rotationInterval \div 2
    /\ IF now - secretCreatedAt >= rotationInterval
       THEN \E ok \in BOOLEAN : rotateSecrets(ok)
       ELSE UNCHANGED <<currentSecret, previousSecret, secretCreatedAt, secretHist>>
    /\ UNCHANGED <<config, tokens>>

\* the token GenerateToken signs: claims, HS256, the current secret;
\* rotations is the number of rotations before the secret was read
AccessToken(subject) ==
    [alg |-> "HS256", key |-> currentSecret, claims |-> subject,
     iat |-> now, nbf |-> now, exp |-> now + config.JWTExpiration,
     rotations |-> Len(secretHist) - 1]

GenerateToken(subject) ==
    /\ tokens' = tokens \cup {AccessToken(subject)}
    /\ UNCHANGED <<config, currentSecret, previousSecret, secretCreatedAt,
                   nextRotation, secretHist>>

\* jwt.ParseWithClaims(tokenString, &JWTClaims{}, keyfunc returning key):
\* HMAC method, signature under key, now < exp, now >= nbf
ParseWithClaims(token, key) ==
    /\ token.alg \in {"HS256", "HS384", "HS512"}
    /\ token.key = key
    /\ now < token.exp
    /\ now >= token.nbf

\* faulty variant: the previous secret is never tried
VerifyToken_CurrentOnly(token) ==
    IF ParseWithClaims(token, currentSecret)
    THEN [ok |-> TRUE, claims |-> token.claims, secret |-> "current"]
    ELSE [ok |-> FALSE, claims |-> << >>, secret |-> "none"]

\* faulty variant: the previous secret is tried even when it is nil
VerifyToken_NoNilCheck(token) ==
    IF ParseWithClaims(token, currentSecret)
    THEN [ok |-> TRUE, claims |-> token.claims, secret |-> "current"]
    ELSE IF ParseWithClaims(token, previousSecret)
    THEN [ok |-> TRUE, claims |-> token.claims, secret |-> "previous"]
    ELSE [ok |-> FALSE, claims |-> << >>, secret |-> "none"]

\* VerifyToken(tokenString) (*JWTClaims, error)
VerifyToken(token) ==
    IF ParseWithClaims(token, currentSecret)
    THEN [ok |-> TRUE, claims |-> token.claims, secret |-> "current"]
    ELSE IF previousSecret # NoSecret /\ ParseWithClaims(token, previousSecret)
    THEN [ok |-> TRUE, claims |-> token.claims, secret |-> "previous"]
    ELSE [ok |-> FALSE, claims |-> << >>, secret |-> "none"]

\* a key the server never held
AttackerKey == [src |-> "attacker", id |-> 0, len |-> 32]

Range(f) == {f[i] : i \in DOMAIN f}

\* tokens a client can present: the issued ones, and forged ones signed
\* with a key of the client's choice (a foreign key, the empty key, the
\* refresh secret, a secret the manager once held) or not HMAC-signed
ForgedTokens ==
    {[alg |-> alg, key |-> key, claims |-> subject, iat |-> ZeroTime,
      nbf |-> ZeroTime, exp |-> exp, rotations |-> 0] :
        alg \in {"HS256", "none"},
        key \in {AttackerKey, NoSecret, RefreshSecret} \cup Range(secretHist),
        subject \in Subjects,
        exp \in {now, now + 1}}

PresentedTokens == tokens \cup ForgedTokens

\* ------------------------------------------------------------------
\* JWT manager, statement by statement: the rotation goroutine, one call
\* of GenerateToken and one call of VerifyToken run concurrently and
\* synchronise on JWTManager.mutex (sync.RWMutex)

NoToken == [alg |-> "none", key |-> NoSecret, claims |-> << >>,
            iat |-> ZeroTime, nbf |-> ZeroTime, exp |-> ZeroTime, rotations |-> 0]

InitMutex == mutex = [writer |-> FALSE, readers |-> 0]

InitRotation == rot = [pc |-> "ticker", newSecret |-> NoSecret]

InitCalls ==
    /\ gen = [pc |-> "idle", claims |-> << >>, iat |-> ZeroTime, exp |-> ZeroTime]
    /\ ver = [pc |-> "idle", token |-> NoToken, currentSecret |-> NoSecret,
              previousSecret |-> NoSecret, ok |-> FALSE, secret |-> "none",
              at |-> ZeroTime]

\* access-token lifetimes of the concurrent runs: the default 24 hours,
\* exactly one rotation interval, and 30 days
ConcConfigs ==
    {DefaultConfig, [DefaultConfig EXCEPT !.JWTExpiration = rotationInterval],
     [DefaultConfig EXCEPT !.JWTExpiration = 2592000]}

ConcSubjects == {[UserID |-> "1", Username |-> "admin", IsAdmin |-> TRUE]}

\* for range ticker.C: the age test, and rand.Read of rotateSecrets
tickerFires ==
    /\ rot.pc = "ticker"
    /\ now >= nextRotation
    /\ nextRotation' = nextRotation + rotationInterval \div 2
    /\ IF now - secretCreatedAt >= rotationInterval
       THEN \E ok \in BOOLEAN :
               rot' = IF ok THEN [pc |-> "Lock", newSecret |-> NewSecret] ELSE rot
       ELSE rot' = rot
    /\ UNCHANGED <<config, currentSecret, previousSecret, secretCreatedAt, tokens,
                   secretHist, mutex, gen, ver>>

\* m.mutex.Lock(): waits until no reader and no writer holds the mutex
rotateLock ==
    /\ rot.pc = "Lock"
    /\ ~mutex.writer /\ mutex.readers = 0
    /\ mutex' = [mutex EXCEPT !.writer = TRUE]
    /\ rot' = [rot EXCEPT !.pc = "previousSecret"]
    /\ UNCHANGED <<jwtVars, gen, ver>>

\* m.previousSecret = m.currentSecret
rotateSetPrevious ==
    /\ rot.pc = "previousSecret"
    /\ previousSecret' = currentSecret
    /\ rot' = [rot EXCEPT !.pc = "currentSecret"]
    /\ UNCHANGED <<config, currentSecret, secretCreatedAt, nextRotation, tokens,
                   secretHist, mutex, gen, ver>>

\* m.currentSecret = newSecret
rotateSetCurrent ==
    /\ rot.pc = "currentSecret"
    /\ currentSecret' = rot.newSecret
    /\ secretHist' = Append(secretHist, rot.newSecret)
    /\ rot' = [rot EXCEPT !.pc = "secretCreatedAt"]
    /\ UNCHANGED <<config, previousSecret, secretCreatedAt, nextRotation, tokens,
                   mutex, gen, ver>>

\* m.secretCreatedAt = time.Now(), and the deferred m.mutex.Unlock()
rotateUnlock ==
    /\ rot.pc = "secretCreatedAt"
    /\ secretCreatedAt' = now
    /\ mutex' = [mutex EXCEPT !.writer = FALSE]
    /\ rot' = [pc |-> "ticker", newSecret |-> NoSecret]
    /\ UNCHANGED <<config, currentSecret, previousSecret, nextRotation, tokens,
                   secretHist, gen, ver>>

\* GenerateToken: the claims are built, with three reads of the clock in
\* the same second
generateClaims(subject) ==
    /\ gen.pc = "idle"
    /\ gen' = [pc |-> "RLock", claims |-> subject, iat |-> now,
               exp |-> now + config.JWTExpiration]
    /\ UNCHANGED <<jwtVars, mutex, rot, ver>>

\* GenerateToken: the current secret is read under the read lock and the
\* token is signed and returned
generateSign ==
    /\ gen.pc = "RLock"
    /\ ~mutex.writer
    /\ tokens' = tokens \cup
          {[alg |-> "HS256", key |-> currentSecret, claims |-> gen.claims,
            iat |-> gen.iat, nbf |-> gen.iat, exp |-> gen.exp,
            rotations |-> Len(secretHist) - 1]}
    /\ gen' = [pc |-> "idle", claims |-> << >>, iat |-> ZeroTime, exp |-> ZeroTime]
    /\ UNCHANGED <<config, currentSecret, previousSecret, secretCreatedAt,
                   nextRotation, secretHist, mutex, rot, ver>>

\* faulty variant: the read lock is taken without waiting for the writer
verifyRLock_NoWait(token) ==
    /\ ver.pc \in {"idle", "done"}
    /\ mutex' = [mutex EXCEPT !.readers = @ + 1]
    /\ ver' = [pc |-> "currentSecret", token |-> token, currentSecret |-> NoSecret,
               previousSecret |-> NoSecret, ok |-> FALSE, secret |-> "none",
               at |-> ZeroTime]
    /\ UNCHANGED <<jwtVars, rot, gen>>

\* VerifyToken(tokenString) is called: m.mutex.RLock()
verifyRLock(token) ==
    /\ ver.pc \in {"idle", "done"}
    /\ ~mutex.writer
    /\ mutex' = [mutex EXCEPT !.readers = @ + 1]
    /\ ver' = [pc |-> "currentSecret", token |-> token, currentSecret |-> NoSecret,
               previousSecret |-> NoSecret, ok |-> FALSE, secret |-> "none",
               at |-> ZeroTime]
    /\ UNCHANGED <<jwtVars, rot, gen>>

\* currentSecret := m.currentSecret
verifyReadCurrent ==
    /\ ver.pc = "currentSecret"
    /\ ver' = [ver EXCEPT !.pc = "previousSecret", !.currentSecret = currentSecret]
    /\ UNCHANGED <<jwtVars, mutex, rot, gen>>

\* previousSecret := m.previousSecret; m.mutex.RUnlock()
verifyReadPrevious ==
    /\ ver.pc = "previousSecret"
    /\ ver' = [ver EXCEPT !.pc = "ParseWithClaims", !.previousSecret = previousSecret]
    /\ mutex' = [mutex EXCEPT !.readers = @ - 1]
    /\ UNCHANGED <<jwtVars, rot, gen>>

\* faulty variant: a token the current secret rejects is rejected
verifyParseCurrent_NoFallback ==
    /\ ver.pc = "ParseWithClaims"
    /\ ver' = IF ParseWithClaims(ver.token, ver.currentSecret)
              THEN [ver EXCEPT !.pc = "done", !.ok = TRUE, !.secret = "current",
                               !.at = now]
              ELSE [ver EXCEPT !.pc = "done", !.at = now]
    /\ UNCHANGED <<jwtVars, mutex, rot, gen>>

\* "Try with current secret"
verifyParseCurrent ==
    /\ ver.pc = "ParseWithClaims"
    /\ ver' = IF ParseWithClaims(ver.token, ver.currentSecret)
              THEN [ver EXCEPT !.pc = "done", !.ok = TRUE, !.secret = "current",
                               !.at = now]
              ELSE IF ver.previousSecret # NoSecret
              THEN [ver EXCEPT !.pc = "previous", !.at = now]
              ELSE [ver EXCEPT !.pc = "done", !.at = now]
    /\ UNCHANGED <<jwtVars, mutex, rot, gen>>

\* "If verification with current secret fails and we have a previous
\* secret, try with that"
verifyParsePrevious ==
    /\ ver.pc = "previous"
    /\ ver' = IF ParseWithClaims(ver.token, ver.previousSecret)
              THEN [ver EXCEPT !.pc = "done", !.ok = TRUE, !.secret = "previous",
                               !.at = now]
              ELSE [ver EXCEPT !.pc = "done", !.at = now]
    /\ UNCHANGED <<jwtVars, mutex, rot, gen>>

\* ------------------------------------------------------------------
\* POST /api/v1/auth/login through BruteForceProtection, TrackLoginAttempt
\* and AuthController.Login

\* requests in flight at the same time
Slots == {1, 2}

EmptyString == << >>

\* what the login handler finds for a request with a username: the
\* password is right, wrong (or the user unknown), or missing
Credentials == {"valid", "invalid", "nopassword"}

NoRequest ==
    [pc |-> "idle", ip |-> << >>, hasUsername |-> FALSE, username |-> EmptyString,
     blocked |-> FALSE, status |-> 0, calls |-> << >>]

InitRequests ==
    /\ reqs = [r \in Slots |-> NoRequest]
    /\ nreq = 0

Call(op, ip, username) == [op |-> op, ip |-> ip, username |-> username]

\* a request enters the middleware chain; hasUsername is whether its body
\* parses and carries a string "username"
Receive(r, ip, hasUsername, username) ==
    /\ reqs[r].pc \in {"idle", "done"}
    /\ reqs' = [reqs EXCEPT ![r] =
                  [pc |-> "BruteForceProtection", ip |-> ip, hasUsername |-> hasUsername,
                   username |-> username, blocked |-> FALSE,
                   status |-> 0, calls |-> << >>]]
    /\ nreq' = nreq + 1

\* the handler returned by BruteForceProtection
BruteForceProtection(r) ==
    LET q == reqs[r] IN
    /\ q.pc = "BruteForceProtection"
    /\ reqs' = [reqs EXCEPT ![r] =
                  IF q.hasUsername
                  THEN IF IsBlocked(q.ip, q.username).blocked
                       THEN [q EXCEPT !.pc = "done", !.blocked = TRUE, !.status = 429,
                                      !.calls = Append(@, Call("IsBlocked", q.ip, q.username))]
                       ELSE [q EXCEPT !.pc = "Login",
                                      !.calls = Append(@, Call("IsBlocked", q.ip, q.username))]
                  ELSE [q EXCEPT !.pc = "Login"]]
    /\ UNCHANGED nreq

\* the status AuthController.Login answers with
LoginStatus(q, cred) ==
    IF ~q.hasUsername \/ q.username = EmptyString \/ cred = "nopassword" THEN 400
    ELSE IF cred = "valid" THEN 200
    ELSE 401

\* TrackLoginAttempt up to c.Next(), and AuthController.Login
Login(r, cred) ==
    LET q == reqs[r] IN
    /\ q.pc = "Login"
    /\ reqs' = [reqs EXCEPT ![r] =
                  [q EXCEPT !.pc = "TrackLoginAttempt", !.status = LoginStatus(q, cred),
                            !.calls = Append(@, Call("Login", q.ip, q.username))]]
    /\ UNCHANGED nreq

\* faulty variant: every status but 200 counts as a failure
TrackLoginAttempt_AnyFailure(r) ==
    LET q == reqs[r]
        username == IF q.hasUsername THEN q.username ELSE EmptyString
    IN /\ q.pc = "TrackLoginAttempt"
       /\ IF username # EmptyString /\ q.status = 200
          THEN /\ RecordSuccessfulAttempt(q.ip, username)
               /\ reqs' = [reqs EXCEPT ![r] =
                     [q EXCEPT !.pc = "done",
                               !.calls = Append(@, Call("RecordSuccessfulAttempt", q.ip, username))]]
          ELSE IF username # EmptyString
          THEN /\ RecordFailedAttempt(q.ip, username)
               /\ reqs' = [reqs EXCEPT ![r] =
                     [q EXCEPT !.pc = "done",
                               !.calls = Append(@, Call("RecordFailedAttempt", q.ip, username))]]
          ELSE /\ reqs' = [reqs EXCEPT ![r] = [q EXCEPT !.pc = "done"]]
               /\ UNCHANGED protVars
       /\ UNCHANGED nreq

\* TrackLoginAttempt after c.Next() has returned
TrackLoginAttempt(r) ==
    LET q == reqs[r]
        username == IF q.hasUsername THEN q.username ELSE EmptyString
    IN /\ q.pc = "TrackLoginAttempt"
       /\ IF username # EmptyString /\ q.status = 200
          THEN /\ RecordSuccessfulAttempt(q.ip, username)
               /\ reqs' = [reqs EXCEPT ![r] =
                     [q EXCEPT !.pc = "done",
                               !.calls = Append(@, Call("RecordSuccessfulAttempt", q.ip, username))]]
          ELSE IF username # EmptyString /\ q.status = 401
          THEN /\ RecordFailedAttempt(q.ip, username)
               /\ reqs' = [reqs EXCEPT ![r] =
                     [q EXCEPT !.pc = "done",
                               !.calls = Append(@, Call("RecordFailedAttempt", q.ip, username))]]
          ELSE /\ reqs' = [reqs EXCEPT ![r] = [q EXCEPT !.pc = "done"]]
               /\ UNCHANGED protVars
       /\ UNCHANGED nreq

\* ------------------------------------------------------------------
\* AuthController.Login and authService.Login, statement by statement,
\* with the Telegram notifier

\* the request slot the service runs are checked on
AuthSlots == {1}
AuthTicks == {5}
\* the password of a login body: none, or one
AuthPasswords == {<< >>, <<"hunter2">>}
\* two passwords, for logins that differ in nothing else
NotifyPasswords == {<<"hunter2">>, <<"letmein">>}

\* http.Client{Timeout: 10 * time.Second}
httpTimeout == 10

NoError == << >>

\* what a finished login request showed its caller, and (history) why
NoOutcome ==
    [cause |-> "none", err |-> NoError, status |-> 0, body |-> << >>, calls |-> << >>,
     username |-> << >>, password |-> << >>, ip |-> << >>, userAgent |-> << >>,
     notified |-> << >>, sentAt |-> 0, message |-> << >>]

Outcome(call, q) ==
    [cause |-> IF call.user = "notfound" THEN "notfound" ELSE call.verify,
     err |-> call.err, status |-> q.status, body |-> call.body, calls |-> q.calls,
     username |-> call.username, password |-> call.password, ip |-> call.ip,
     userAgent |-> call.userAgent, notified |-> call.notified, sentAt |-> call.sentAt,
     message |-> call.message]

Visible(o) == [err |-> o.err, status |-> o.status, body |-> o.body, calls |-> o.calls]

NoLogin ==
    [pc |-> "idle", r |-> 0, user |-> "none", subject |-> << >>, verify |-> "none",
     access |-> "none", refresh |-> "none", err |-> NoError, tokens |-> FALSE,
     notified |-> << >>, sentAt |-> ZeroTime, net |-> "none",
     status |-> 0, body |-> << >>, last |-> NoOutcome,
     username |-> << >>, password |-> << >>, ip |-> << >>, userAgent |-> << >>,
     message |-> << >>]

\* c.Get("User-Agent")
UserAgent == <<"curl/8.5.0">>

\* time.Now().Format(time.RFC1123): the instant to the second, as text
FormatRFC1123(t) == <<"RFC1123", t>>

\* the text fmt.Sprintf builds in SendLoginSuccess and SendLoginFailure:
\* the heading and the values in the order of the verbs
LoginMessage(op, username, password, ip, userAgent, reason) ==
    IF op = "SendLoginSuccess"
    THEN <<<<"SUCCESSFUL LOGIN">>, username, password, ip, userAgent,
           FormatRFC1123(now)>>
    ELSE <<<<"FAILED LOGIN ATTEMPT">>, username, password, ip, userAgent,
           FormatRFC1123(now), <<reason>>>>

InitService == svc = NoLogin

\* s.telegramService.SendLoginFailure / SendLoginSuccess is called: it
\* returns at once when disabled, otherwise it posts the message
Notify(call, op, reason) ==
    [call EXCEPT !.notified = Append(@, [op |-> op, reason |-> reason]),
                 !.pc = IF telegramEnabled THEN "httpClient.Post" ELSE "return",
                 !.sentAt = IF telegramEnabled THEN now ELSE @,
                 !.message = IF telegramEnabled
                             THEN LoginMessage(op, call.username, call.password,
                                               call.ip, call.userAgent, reason)
                             ELSE @]

Fail(call, err, reason) ==
    Notify([call EXCEPT !.err = err], "SendLoginFailure", reason)

\* AuthController.Login up to the call of the service; password is the
\* password of the body, empty when the body has none
ControllerLogin(r, password) ==
    LET q == reqs[r] IN
    /\ q.pc = "Login"
    /\ IF ~q.hasUsername \/ q.username = EmptyString \/ password = EmptyString
       THEN /\ reqs' = [reqs EXCEPT ![r] =
                  [q EXCEPT !.pc = "TrackLoginAttempt", !.status = 400,
                            !.calls = Append(@, Call("Login", q.ip, q.username))]]
            /\ svc' = [NoLogin EXCEPT !.r = r, !.status = 400, !.last = svc.last,
                                      !.body = <<"Username and password are required">>]
       ELSE /\ reqs' = [reqs EXCEPT ![r] =
                  [q EXCEPT !.pc = "authService.Login",
                            !.calls = Append(@, Call("Login", q.ip, q.username))]]
            /\ svc' = [NoLogin EXCEPT !.r = r, !.pc = "GetByUsername", !.last = svc.last,
                                      !.username = q.username, !.password = password,
                                      !.ip = q.ip, !.userAgent = UserAgent]
    /\ UNCHANGED <<nreq, telegramEnabled>>

\* faulty variant: an unknown user is reported as such
GetByUsername_Oracle(found, subject) ==
    /\ svc.pc = "GetByUsername"
    /\ svc' = IF found
              THEN [svc EXCEPT !.pc = "VerifyPassword", !.user = "found",
                               !.subject = subject]
              ELSE Fail([svc EXCEPT !.user = "notfound"],
                        <<"user not found">>, "User not found")
    /\ UNCHANGED <<reqVars, telegramEnabled>>

\* user, err := s.userRepo.GetByUsername(ctx, username)
GetByUsername(found, subject) ==
    /\ svc.pc = "GetByUsername"
    /\ svc' = IF found
              THEN [svc EXCEPT !.pc = "VerifyPassword", !.user = "found",
                               !.subject = subject]
              ELSE Fail([svc EXCEPT !.user = "notfound"],
                        <<"invalid credentials">>, "User not found")
    /\ UNCHANGED <<reqVars, telegramEnabled>>

\* faulty variant: only an error of VerifyPassword stops the login
VerifyPasswordStep_IgnoresMismatch(outcome) ==
    /\ svc.pc = "VerifyPassword"
    /\ svc' = IF outcome = "error"
              THEN Fail([svc EXCEPT !.verify = outcome],
                        <<"authentication error">>, "Password verification error")
              ELSE [svc EXCEPT !.verify = outcome, !.pc = "GenerateToken"]
    /\ UNCHANGED <<reqVars, telegramEnabled>>

\* valid, err := util.VerifyPassword(password, user.Password)
VerifyPasswordStep(outcome) ==
    /\ svc.pc = "VerifyPassword"
    /\ svc' = IF outcome = "error"
              THEN Fail([svc EXCEPT !.verify = outcome],
                        <<"authentication error">>, "Password verification error")
              ELSE IF outcome = "mismatch"
              THEN Fail([svc EXCEPT !.verify = outcome],
                        <<"invalid credentials">>, "Invalid password")
              ELSE [svc EXCEPT !.verify = outcome, !.pc = "GenerateToken"]
    /\ UNCHANGED <<reqVars, telegramEnabled>>

\* token, err := middleware.GenerateToken(...)
ServiceGenerateToken(ok) ==
    /\ svc.pc = "GenerateToken"
    /\ IF ok
       THEN /\ GenerateToken(svc.subject)
            /\ svc' = [svc EXCEPT !.access = "ok", !.pc = "GenerateRefreshToken"]
       ELSE /\ UNCHANGED jwtVars
            /\ svc' = Fail([svc EXCEPT !.access = "error"],
                           <<"SignedString error">>, "Token generation error")
    /\ UNCHANGED <<reqVars, telegramEnabled>>

\* faulty variant: a failed refresh token is not reported
ServiceGenerateRefreshToken_Silent(ok) ==
    /\ svc.pc = "GenerateRefreshToken"
    /\ svc' = IF ok
              THEN Notify([svc EXCEPT !.refresh = "ok", !.tokens = TRUE],
                          "SendLoginSuccess", "")
              ELSE [svc EXCEPT !.refresh = "error", !.err = <<"SignedString error">>,
                               !.pc = "return"]
    /\ UNCHANGED <<reqVars, telegramEnabled>>

\* refreshToken, err := middleware.GenerateRefreshToken(...), and the
\* notification of the success
ServiceGenerateRefreshToken(ok) ==
    /\ svc.pc = "GenerateRefreshToken"
    /\ svc' = IF ok
              THEN Notify([svc EXCEPT !.refresh = "ok", !.tokens = TRUE],
                          "SendLoginSuccess", "")
              ELSE Fail([svc EXCEPT !.refresh = "error"],
                        <<"SignedString error">>, "Refresh token generation error")
    /\ UNCHANGED <<reqVars, telegramEnabled>>

\* r.httpClient.Post returns: an answer of Telegram (200 or not), a
\* transport error, or the client's timeout after 10 seconds; the error is
\* logged by the notifier and dropped
SendMessage(outcome) ==
    /\ svc.pc = "httpClient.Post"
    /\ IF outcome = "timeout" THEN now >= svc.sentAt + httpTimeout
       ELSE now < svc.sentAt + httpTimeout
    /\ svc' = [svc EXCEPT !.pc = "return", !.net = outcome]
    /\ UNCHANGED <<reqVars, telegramEnabled>>

\* authService.Login returns and AuthController.Login writes the response
ControllerRespond ==
    /\ svc.pc = "return"
    /\ LET status == IF svc.err # NoError THEN 401 ELSE 200
           body == IF svc.err # NoError THEN <<"Invalid credentials">>
                   ELSE <<"access_token", "refresh_token", "user">>
       IN /\ svc' = [svc EXCEPT !.pc = "returned", !.status = status, !.body = body]
          /\ reqs' = [reqs EXCEPT ![svc.r] =
                         [@ EXCEPT !.pc = "TrackLoginAttempt", !.status = status]]
    /\ UNCHANGED <<nreq, telegramEnabled>>

\* ------------------------------------------------------------------
\* routes under /api/v1/admin: Protected, AdminOnly, then the handler

\* a token string VerifyToken cannot parse, shorter than 10 bytes
ShortToken == [NoToken EXCEPT !.alg = "malformed"]

\* len(tokenString): a signed token is far longer than 10 bytes
tokenStringLen(token) == IF token.alg = "malformed" THEN 3 ELSE 120

\* Authorization headers: none, another scheme, the scheme in lower case,
\* and "Bearer " followed by a token
NoHeader == << >>

Headers(toks) ==
    {NoHeader, <<"Basic ", ShortToken>>} \cup
    {<<scheme, token>> : scheme \in {"Bearer ", "bearer "}, token \in toks}

\* strings.HasPrefix(authHeader, "Bearer ")
HasBearerPrefix(authHeader) == Len(authHeader) >= 1 /\ authHeader[1] = "Bearer "

\* strings.TrimPrefix(authHeader, "Bearer ")
TrimBearerPrefix(authHeader) == authHeader[2]

NoLocals == [set |-> FALSE, user_id |-> "", username |-> "", is_admin |-> FALSE]

NoAdminRequest ==
    [pc |-> "idle", header |-> NoHeader, verified |-> FALSE, locals |-> NoLocals,
     status |-> 0, handler |-> FALSE]

InitAdmin == adminReq = NoAdminRequest

AdminReceive(authHeader) ==
    /\ adminReq.pc \in {"idle", "done"}
    /\ adminReq' = [NoAdminRequest EXCEPT !.pc = "Protected", !.header = authHeader]

\* the handler returned by Protected; a panic at tokenString[:10] is
\* caught by fiberRecover and answered with 500
Protected ==
    /\ adminReq.pc = "Protected"
    /\ LET authHeader == adminReq.header IN
       adminReq' =
          IF authHeader = NoHeader
          THEN [adminReq EXCEPT !.pc = "done", !.status = 401]
          ELSE IF ~HasBearerPrefix(authHeader)
          THEN [adminReq EXCEPT !.pc = "done", !.status = 401]
          ELSE LET tokenString == TrimBearerPrefix(authHeader)
                   res == VerifyToken(tokenString)
               IN IF ~res.ok
                  THEN IF tokenStringLen(tokenString) < 10
                       THEN [adminReq EXCEPT !.pc = "done", !.status = 500]
                       ELSE [adminReq EXCEPT !.pc = "done", !.status = 401]
                  ELSE [adminReq EXCEPT !.pc = "AdminOnly", !.verified = TRUE,
                           !.locals = [set |-> TRUE, user_id |-> res.claims.UserID,
                                       username |-> res.claims.Username,
                                       is_admin |-> res.claims.IsAdmin]]

\* faulty variant: any verified user passes
AdminOnly_AnyUser ==
    /\ adminReq.pc = "AdminOnly"
    /\ adminReq' = IF ~adminReq.locals.set
                   THEN [adminReq EXCEPT !.pc = "done", !.status = 403]
                   ELSE [adminReq EXCEPT !.pc = "handler"]

\* the handler returned by AdminOnly
AdminOnly ==
    /\ adminReq.pc = "AdminOnly"
    /\ adminReq' = IF ~adminReq.locals.set \/ ~adminReq.locals.is_admin
                   THEN [adminReq EXCEPT !.pc = "done", !.status = 403]
                   ELSE [adminReq EXCEPT !.pc = "handler"]

\* a handler registered by setupAdminRoutes runs
AdminHandler ==
    /\ adminReq.pc = "handler"
    /\ adminReq' = [adminReq EXCEPT !.pc = "done", !.status = 200, !.handler = TRUE]

\* ------------------------------------------------------------------
\* pkg/util: HashPassword and VerifyPassword.  A string is the sequence of
\* its characters; passwords, salts and keys are sequences of bytes.

\* the alphabet of base64.RawStdEncoding
encodeStd ==
    <<"A", "B", "C", "D", "E", "F", "G", "H", "I", "J", "K", "L", "M", "N", "O", "P">> \o
    <<"Q", "R", "S", "T", "U", "V", "W", "X", "Y", "Z", "a", "b", "c", "d", "e", "f">> \o
    <<"g", "h", "i", "j", "k", "l", "m", "n", "o", "p", "q", "r", "s", "t", "u", "v">> \o
    <<"w", "x", "y", "z", "0", "1", "2", "3", "4", "5", "6", "7", "8", "9", "+", "/">>

Digits == <<"0", "1", "2", "3", "4", "5", "6", "7", "8", "9">>

\* the characters fmt's %d writes for a non-negative integer
RECURSIVE FormatInt(_)
FormatInt(n) ==
    IF n < 10 THEN <<Digits[n + 1]>>
    ELSE FormatInt(n \div 10) \o <<Digits[(n % 10) + 1]>>

\* base64.RawStdEncoding.EncodeToString: 3 bytes to 4 characters, no padding
RECURSIVE EncodeToString(_)
EncodeToString(src) ==
    IF Len(src) = 0 THEN << >>
    ELSE IF Len(src) = 1
    THEN <<encodeStd[(src[1] \div 4) + 1], encodeStd[((src[1] % 4) * 16) + 1]>>
    ELSE IF Len(src) = 2
    THEN LET n == src[1] * 256 + src[2]
         IN <<encodeStd[(n \div 1024) + 1], encodeStd[((n \div 16) % 64) + 1],
              encodeStd[((n % 16) * 4) + 1]>>
    ELSE LET n == src[1] * 65536 + src[2] * 256 + src[3]
         IN <<encodeStd[(n \div 262144) + 1], encodeStd[((n \div 4096) % 64) + 1],
              encodeStd[((n \div 64) % 64) + 1], encodeStd[(n % 64) + 1]>>
            \o EncodeToString(SubSeq(src, 4, Len(src)))

\* the 6-bit value of a character of the alphabet
DecodeMap(c) == (CHOOSE i \in 1 .. 64 : encodeStd[i] = c) - 1

RECURSIVE DecodeQuanta(_)
DecodeQuanta(s) ==
    IF Len(s) = 0 THEN << >>
    ELSE IF Len(s) = 2
    THEN LET n == DecodeMap(s[1]) * 64 + DecodeMap(s[2]) IN <<n \div 16>>
    ELSE IF Len(s) = 3
    THEN LET n == DecodeMap(s[1]) * 4096 + DecodeMap(s[2]) * 64 + DecodeMap(s[3])
         IN <<n \div 1024, (n \div 4) % 256>>
    ELSE LET n == DecodeMap(s[1]) * 262144 + DecodeMap(s[2]) * 4096
                  + DecodeMap(s[3]) * 64 + DecodeMap(s[4])
         IN <<n \div 65536, (n \div 256) % 256, n % 256>>
            \o DecodeQuanta(SubSeq(s, 5, Len(s)))

\* base64.RawStdEncoding.DecodeString: an error on a character outside
\* the alphabet (padding included) and on a dangling single character
DecodeString(s) ==
    IF (\E i \in 1 .. Len(s) : s[i] \notin Range(encodeStd)) \/ Len(s) % 4 = 1
    THEN [ok |-> FALSE, bytes |-> << >>]
    ELSE [ok |-> TRUE, bytes |-> DecodeQuanta(s)]

\* strings.Split(s, "$")
RECURSIVE Split(_)
Split(s) ==
    IF \A i \in 1 .. Len(s) : s[i] # "$" THEN <<s>>
    ELSE LET i == CHOOSE k \in 1 .. Len(s) :
                      s[k] = "$" /\ \A j \in 1 .. k - 1 : s[j] # "$"
         IN <<SubSeq(s, 1, i - 1)>> \o Split(SubSeq(s, i + 1, Len(s)))

HasPrefix(s, prefix) == Len(s) >= Len(prefix) /\ SubSeq(s, 1, Len(prefix)) = prefix

\* the digits at the head of s
RECURSIVE LeadingDigits(_)
LeadingDigits(s) ==
    IF Len(s) = 0 \/ s[1] \notin Range(Digits) THEN << >>
    ELSE <<s[1]>> \o LeadingDigits(Tail(s))

RECURSIVE ParseDigits(_)
ParseDigits(ds) ==
    IF Len(ds) = 0 THEN 0
    ELSE ParseDigits(SubSeq(ds, 1, Len(ds) - 1)) * 10
         + ((CHOOSE i \in 1 .. 10 : Digits[i] = ds[Len(ds)]) - 1)

MaxUint8 == 255
\* numbers of the model stay below 10^9; a longer run of digits is
\* taken to overflow the target
MaxUint32 == 999999999

\* one verb of fmt.Sscanf: the literal text, then %d into an integer
\* whose largest value is max; what follows the digits is left in rest
ScanUint(s, literal, max) ==
    IF ~HasPrefix(s, literal) THEN [ok |-> FALSE, val |-> 0, rest |-> << >>]
    ELSE LET t == SubSeq(s, Len(literal) + 1, Len(s))
             ds == LeadingDigits(t)
         IN IF Len(ds) = 0 \/ Len(ds) > 9 \/ ParseDigits(ds) > max
            THEN [ok |-> FALSE, val |-> 0, rest |-> << >>]
            ELSE [ok |-> TRUE, val |-> ParseDigits(ds),
                  rest |-> SubSeq(t, Len(ds) + 1, Len(t))]

\* the number a byte string spells in base 257
RECURSIVE Code(_)
Code(bytes) ==
    IF Len(bytes) = 0 THEN 0
    ELSE Code(SubSeq(bytes, 1, Len(bytes) - 1)) * 257 + bytes[Len(bytes)] + 1

\* argon2.IDKey, idealised: a deterministic key of keyLen bytes that
\* depends on every argument, and differs for different passwords under
\* the same salt and parameters (no collisions)
IDKey(password, salt, time, memory, threads, keyLen) ==
    [i \in 1 .. keyLen |->
        (((Code(password) \div (256 ^ ((i - 1) % 4))) % 256)
         + (IF Len(salt) = 0 THEN 0 ELSE salt[((i - 1) % Len(salt)) + 1])
         + time + threads + (memory % 251) + i) % 256]

\* subtle.ConstantTimeCompare(x, y) == 1
ConstantTimeCompare(x, y) == x = y

argon2Time == 1
argon2Memory == 64 * 1024
argon2Threads == 4
argon2KeyLen == 32
saltLen == 16

\* faulty variant: the encoded hash lacks its leading "$"
HashPassword_NoLeadingDollar(password, salt) ==
    LET hash == IDKey(password, salt, argon2Time, argon2Memory, argon2Threads,
                      argon2KeyLen)
    IN <<"a", "r", "g", "o", "n", "2", "i", "d">> \o <<"$", "v", "=">> \o FormatInt(19)
       \o <<"$", "m", "=">> \o FormatInt(argon2Memory)
       \o <<",", "t", "=">> \o FormatInt(argon2Time)
       \o <<",", "p", "=">> \o FormatInt(argon2Threads)
       \o <<"$">> \o EncodeToString(salt) \o <<"$">> \o EncodeToString(hash)

\* HashPassword(password) with the salt rand.Read drew:
\* "$argon2id$v=%d$m=%d,t=%d,p=%d$%s$%s"
HashPassword(password, salt) ==
    LET hash == IDKey(password, salt, argon2Time, argon2Memory, argon2Threads,
                      argon2KeyLen)
    IN <<"$">> \o <<"a", "r", "g", "o", "n", "2", "i", "d">> \o <<"$", "v", "=">> \o FormatInt(19)
       \o <<"$", "m", "=">> \o FormatInt(argon2Memory)
       \o <<",", "t", "=">> \o FormatInt(argon2Time)
       \o <<",", "p", "=">> \o FormatInt(argon2Threads)
       \o <<"$">> \o EncodeToString(salt) \o <<"$">> \o EncodeToString(hash)

\* fmt.Sscanf(parts[3], "m=%d,t=%d,p=%d", &memory, &time, &threads)
ScanParams(s) ==
    LET m == ScanUint(s, <<"m", "=">>, MaxUint32)
        t == IF m.ok THEN ScanUint(m.rest, <<",", "t", "=">>, MaxUint32) ELSE m
        p == IF t.ok THEN ScanUint(t.rest, <<",", "p", "=">>, MaxUint8) ELSE t
    IN [ok |-> p.ok, memory |-> m.val, time |-> t.val, threads |-> p.val]

\* VerifyPassword(password, hash) (bool, error) of part_009: valid is the
\* bool, err whether the error is not nil
VerifyPassword(password, hash) ==
    LET parts == Split(hash)
        failed == [valid |-> FALSE, err |-> TRUE]
    IN IF Len(parts) # 6 THEN failed
       ELSE IF ~ScanUint(parts[3], <<"v", "=">>, MaxUint32).ok THEN failed
       ELSE IF ~ScanParams(parts[4]).ok THEN failed
       ELSE IF ~DecodeString(parts[5]).ok THEN failed
       ELSE IF ~DecodeString(parts[6]).ok THEN failed
       ELSE LET params == ScanParams(parts[4])
                salt == DecodeString(parts[5]).bytes
                hashBytes == DecodeString(parts[6]).bytes
                compareHash == IDKey(password, salt, params.time, params.memory,
                                     params.threads, Len(hashBytes))
            IN [valid |-> ConstantTimeCompare(hashBytes, compareHash), err |-> FALSE]

\* decodeHash(encodedHash) of part_000
decodeHash(encodedHash) ==
    LET parts == Split(encodedHash)
        failed == [ok |-> FALSE, memory |-> 0, time |-> 0, threads |-> 0,
                   keyLen |-> 0, salt |-> << >>, hash |-> << >>]
    IN IF Len(parts) # 6 THEN failed
       ELSE IF parts[2] # <<"a", "r", "g", "o", "n", "2", "i", "d">> THEN failed
       ELSE IF ~ScanUint(parts[3], <<"v", "=">>, MaxUint32).ok THEN failed
       ELSE IF ScanUint(parts[3], <<"v", "=">>, MaxUint32).val # 19 THEN failed
       ELSE IF ~ScanParams(parts[4]).ok THEN failed
       ELSE IF ~DecodeString(parts[5]).ok THEN failed
       ELSE IF ~DecodeString(parts[6]).ok THEN failed
       ELSE IF Len(DecodeString(parts[6]).bytes) = 0 THEN failed
       ELSE LET params == ScanParams(parts[4])
            IN [ok |-> TRUE, memory |-> params.memory, time |-> params.time,
                threads |-> params.threads,
                keyLen |-> Len(DecodeString(parts[6]).bytes),
                salt |-> DecodeString(parts[5]).bytes,
                hash |-> DecodeString(parts[6]).bytes]

\* VerifyPassword(password, encodedHash) (bool, error) of part_000
VerifyPasswordDecoded(password, encodedHash) ==
    LET d == decodeHash(encodedHash) IN
    IF ~d.ok THEN [valid |-> FALSE, err |-> TRUE]
    ELSE LET otherHash == IDKey(password, d.salt, d.time, d.memory, d.threads, d.keyLen)
         IN [valid |-> ConstantTimeCompare(d.hash, otherHash), err |-> FALSE]

\* passwords: every byte string over 'a' and '$' up to MaxPasswordLen
RECURSIVE ByteStrings(_)
ByteStrings(n) ==
    IF n = 0 THEN {<< >>}
    ELSE ByteStrings(n - 1) \cup
         {Append(b, c) : b \in {x \in ByteStrings(n - 1) : Len(x) = n - 1}, c \in {97, 36}}

Passwords == ByteStrings(MaxPasswordLen)

\* salts rand.Read may draw
Salts ==
    {[i \in 1 .. saltLen |-> 0], [i \in 1 .. saltLen |-> 255],
     [i \in 1 .. saltLen |-> (i * 37) % 256]}

NoResult == [valid |-> FALSE, err |-> FALSE]

NoPanic == [result |-> FALSE, decoded |-> FALSE]

InitPassword ==
    pw = [pc |-> "idle", password |-> << >>, candidate |-> << >>, salt |-> << >>,
          hash |-> << >>, result |-> NoResult, decoded |-> NoResult,
          panic |-> NoPanic]

\* a password is stored: HashPassword(password); ok is whether rand.Read
\* succeeded
HashPasswordCall(password, salt, ok) ==
    /\ pw.pc = "idle"
    /\ pw' = IF ok
             THEN [pw EXCEPT !.pc = "hashed", !.password = password, !.salt = salt,
                             !.hash = HashPassword(password, salt)]
             ELSE [pw EXCEPT !.pc = "failed", !.password = password]

\* a candidate password is checked against the stored hash, by either
\* implementation of VerifyPassword
VerifyPasswordCall(candidate) ==
    /\ pw.pc = "hashed"
    /\ pw' = [pw EXCEPT !.pc = "verified", !.candidate = candidate,
                        !.result = VerifyPassword(candidate, pw.hash),
                        !.decoded = VerifyPasswordDecoded(candidate, pw.hash)]

\* strings.Join(parts, "$")
RECURSIVE Join(_)
Join(parts) ==
    IF Len(parts) = 0 THEN << >>
    ELSE IF Len(parts) = 1 THEN parts[1]
    ELSE parts[1] \o <<"$">> \o Join(Tail(parts))

\* what the password column of a user row may hold besides a hash that
\* HashPassword wrote: the hash cut to 5 segments or grown to 7, another
\* algorithm tag, another version, a cost of zero passes
StoredKinds ==
    {"intact", "5 segments", "7 segments", "argon2i", "v=16", "t=0", "argon2i,t=0"}

ZeroPasses ==
    <<"m", "=">> \o FormatInt(argon2Memory) \o <<",", "t", "=">> \o FormatInt(0)
    \o <<",", "p", "=">> \o FormatInt(argon2Threads)

StoredPassword(hash, kind) ==
    LET parts == Split(hash) IN
    IF kind = "5 segments" THEN Join(SubSeq(parts, 1, 5))
    ELSE IF kind = "7 segments" THEN Join(Append(parts, parts[6]))
    ELSE IF kind = "argon2i"
    THEN Join([parts EXCEPT ![2] = <<"a", "r", "g", "o", "n", "2", "i">>])
    ELSE IF kind = "v=16"
    THEN Join([parts EXCEPT ![3] = <<"v", "=">> \o FormatInt(16)])
    ELSE IF kind = "t=0" THEN Join([parts EXCEPT ![4] = ZeroPasses])
    ELSE IF kind = "argon2i,t=0"
    THEN Join([parts EXCEPT ![2] = <<"a", "r", "g", "o", "n", "2", "i">>,
                            ![4] = ZeroPasses])
    ELSE hash

\* argon2.IDKey panics ("number of rounds too small", "parallelism degree
\* too low") instead of returning a key
IDKeyPanics(time, threads) == time < 1 \/ threads < 1

\* the user row is read from the store: user.Password
LoadPassword(kind) ==
    /\ pw.pc = "hashed"
    /\ pw' = [pw EXCEPT !.pc = "loaded", !.hash = StoredPassword(pw.hash, kind)]

\* util.VerifyPassword(password, user.Password), by either implementation;
\* a call that reaches argon2.IDKey with parameters it refuses panics
VerifyStoredPassword(candidate) ==
    /\ pw.pc = "loaded"
    /\ LET r == VerifyPassword(candidate, pw.hash)
           d == decodeHash(pw.hash)
           rPanics == ~r.err /\ LET params == ScanParams(Split(pw.hash)[4])
                                IN IDKeyPanics(params.time, params.threads)
           dPanics == d.ok /\ IDKeyPanics(d.time, d.threads)
       IN pw' = [pw EXCEPT !.pc = "checked", !.candidate = candidate,
                           !.result = IF rPanics THEN NoResult ELSE r,
                           !.decoded = IF dPanics THEN NoResult
                                       ELSE VerifyPasswordDecoded(candidate, pw.hash),
                           !.panic = [result |-> rPanics, decoded |-> dPanics]]

\* components that are idle until a run uses them
InitExt ==
    /\ InitMutex
    /\ InitRotation
    /\ InitCalls
    /\ telegramEnabled = FALSE
    /\ InitService
    /\ InitAdmin
    /\ InitPassword

\* the process after main has built its components, default configuration
Init ==
    /\ InitClock
    /\ InitProtector
    /\ config = DefaultConfig
    /\ InitJWTManager
    /\ InitRequests
    /\ InitExt

\* the protector called directly
Next ==
    \/ \E ip \in IPs, u \in Users :
          /\ IPCount(ip) < MaxFailures
          /\ RecordFailedAttempt(ip, u)
          /\ UNCHANGED <<nextCleanup, clockVars, jwtVars, reqVars, extVars>>
    \/ \E ip \in IPs, u \in Users :
          /\ RecordSuccessfulAttempt(ip, u)
          /\ UNCHANGED <<nextCleanup, clockVars, jwtVars, reqVars, extVars>>
    \/ cleanup /\ UNCHANGED <<clockVars, jwtVars, reqVars, extVars>>
    \/ \E d \in Ticks :
          /\ nticks < MaxTicks
          /\ Tick(d)
          /\ UNCHANGED <<protVars, nextCleanup, jwtVars, reqVars, extVars>>

Spec == Init /\ [][Next]_vars

\* one client hammering one account, far enough to reach the cap
NextCap ==
    \/ \E ip \in IPs, u \in CapUsers :
          /\ IPCount(ip) < MaxCapFailures
          /\ RecordFailedAttempt(ip, u)
          /\ UNCHANGED <<nextCleanup, clockVars, jwtVars, reqVars, extVars>>
    \/ \E ip \in IPs, u \in CapUsers :
          /\ RecordSuccessfulAttempt(ip, u)
          /\ UNCHANGED <<nextCleanup, clockVars, jwtVars, reqVars, extVars>>
    \/ cleanup /\ UNCHANGED <<clockVars, jwtVars, reqVars, extVars>>
    \/ \E d \in Ticks :
          /\ nticks < MaxTicks
          /\ Tick(d)
          /\ UNCHANGED <<protVars, nextCleanup, jwtVars, reqVars, extVars>>

SpecCap == Init /\ [][NextCap]_vars

\* the protector called with addresses and usernames that contain ":"
InitKeys ==
    /\ InitClock
    /\ InitKeyProtector
    /\ config = DefaultConfig
    /\ InitJWTManager
    /\ InitRequests
    /\ InitExt

NextKeys ==
    \/ \E ip \in KeyIPs, u \in KeyUsers :
          /\ IPCount(ip) < MaxKeyFailures
          /\ RecordFailedAttempt(ip, u)
          /\ UNCHANGED <<nextCleanup, clockVars, jwtVars, reqVars, extVars>>
    \/ \E ip \in KeyIPs, u \in KeyUsers :
          /\ RecordSuccessfulAttempt(ip, u)
          /\ UNCHANGED <<nextCleanup, clockVars, jwtVars, reqVars, extVars>>
    \/ \E d \in Ticks :
          /\ nticks < MaxKeyTicks
          /\ Tick(d)
          /\ UNCHANGED <<protVars, nextCleanup, jwtVars, reqVars, extVars>>

SpecKeys == InitKeys /\ [][NextKeys]_vars

\* the JWT manager: issuance, the rotation loop, the clock
InitJWT ==
    /\ InitClock
    /\ InitProtector
    /\ config \in Configs
    /\ InitJWTManager
    /\ InitRequests
    /\ InitExt

NextJWT ==
    \/ \E subject \in Subjects :
          /\ Cardinality(tokens) < MaxTokens
          /\ GenerateToken(subject)
          /\ UNCHANGED <<protVars, nextCleanup, clockVars, reqVars, extVars>>
    \/ rotateSecretsPeriodically /\ UNCHANGED <<protVars, nextCleanup, clockVars, reqVars, extVars>>
    \/ \E d \in JWTTicks :
          /\ nticks < MaxJWTTicks
          /\ Tick(d)
          /\ UNCHANGED <<protVars, nextCleanup, jwtVars, reqVars, extVars>>

SpecJWT == InitJWT /\ [][NextJWT]_vars

\* the JWT manager under concurrent issuance, rotation and verification
InitConc ==
    /\ InitClock
    /\ InitProtector
    /\ config \in ConcConfigs
    /\ InitJWTManager
    /\ InitRequests
    /\ InitExt

NextConc ==
    \/ tickerFires /\ UNCHANGED <<protVars, nextCleanup, clockVars, reqVars, svcVars, adminVars, pwVars>>
    \/ rotateLock /\ UNCHANGED <<protVars, nextCleanup, clockVars, reqVars, svcVars, adminVars, pwVars>>
    \/ rotateSetPrevious /\ UNCHANGED <<protVars, nextCleanup, clockVars, reqVars, svcVars, adminVars, pwVars>>
    \/ rotateSetCurrent /\ UNCHANGED <<protVars, nextCleanup, clockVars, reqVars, svcVars, adminVars, pwVars>>
    \/ rotateUnlock /\ UNCHANGED <<protVars, nextCleanup, clockVars, reqVars, svcVars, adminVars, pwVars>>
    \/ \E subject \in ConcSubjects :
          /\ Cardinality(tokens) < MaxConcTokens
          /\ generateClaims(subject)
          /\ UNCHANGED <<protVars, nextCleanup, clockVars, reqVars, svcVars, adminVars, pwVars>>
    \/ generateSign /\ UNCHANGED <<protVars, nextCleanup, clockVars, reqVars, svcVars, adminVars, pwVars>>
    \/ \E token \in tokens :
          /\ verifyRLock(token)
          /\ UNCHANGED <<protVars, nextCleanup, clockVars, reqVars, svcVars, adminVars, pwVars>>
    \/ verifyReadCurrent /\ UNCHANGED <<protVars, nextCleanup, clockVars, reqVars, svcVars, adminVars, pwVars>>
    \/ verifyReadPrevious /\ UNCHANGED <<protVars, nextCleanup, clockVars, reqVars, svcVars, adminVars, pwVars>>
    \/ verifyParseCurrent /\ UNCHANGED <<protVars, nextCleanup, clockVars, reqVars, svcVars, adminVars, pwVars>>
    \/ verifyParsePrevious /\ UNCHANGED <<protVars, nextCleanup, clockVars, reqVars, svcVars, adminVars, pwVars>>
    \/ \E d \in JWTTicks :
          /\ nticks < MaxConcTicks
          /\ Tick(d)
          /\ UNCHANGED <<protVars, nextCleanup, jwtVars, reqVars, extVars>>

SpecConc == InitConc /\ [][NextConc]_vars

\* one login request at a time through the middleware chain, the
\* controller and the service, with the notifier enabled or not
InitAuth ==
    /\ InitClock
    /\ InitProtector
    /\ config = DefaultConfig
    /\ InitJWTManager
    /\ InitRequests
    /\ InitMutex
    /\ InitRotation
    /\ InitCalls
    /\ telegramEnabled \in BOOLEAN
    /\ InitService
    /\ InitAdmin
    /\ InitPassword

NextAuth ==
    \/ \E r \in AuthSlots, ip \in IPs, hasUsername \in BOOLEAN,
          username \in LoginUsers \cup {EmptyString} :
          /\ nreq < MaxAuthRequests
          /\ hasUsername \/ username = EmptyString
          /\ Receive(r, ip, hasUsername, username)
          /\ svc' = IF reqs[r].pc = "done" /\ svc.pc = "returned" /\ ~reqs[r].blocked
                    THEN [svc EXCEPT !.last = Outcome(svc, reqs[r])]
                    ELSE svc
          /\ UNCHANGED <<protVars, nextCleanup, clockVars, jwtVars, concVars,
                         telegramEnabled, adminVars, pwVars>>
    \/ \E r \in AuthSlots :
          /\ BruteForceProtection(r)
          /\ UNCHANGED <<protVars, nextCleanup, clockVars, jwtVars, extVars>>
    \/ \E r \in AuthSlots, password \in AuthPasswords :
          /\ ControllerLogin(r, password)
          /\ UNCHANGED <<protVars, nextCleanup, clockVars, jwtVars, concVars, adminVars, pwVars>>
    \/ \E found \in BOOLEAN, subject \in Subjects :
          /\ GetByUsername(found, subject)
          /\ UNCHANGED <<protVars, nextCleanup, clockVars, jwtVars, concVars, adminVars, pwVars>>
    \/ \E outcome \in {"match", "mismatch", "error"} :
          /\ VerifyPasswordStep(outcome)
          /\ UNCHANGED <<protVars, nextCleanup, clockVars, jwtVars, concVars, adminVars, pwVars>>
    \/ \E ok \in BOOLEAN :
          /\ ServiceGenerateToken(ok)
          /\ UNCHANGED <<protVars, nextCleanup, clockVars, concVars, adminVars, pwVars>>
    \/ \E ok \in BOOLEAN :
          /\ ServiceGenerateRefreshToken(ok)
          /\ UNCHANGED <<protVars, nextCleanup, clockVars, jwtVars, concVars, adminVars, pwVars>>
    \/ \E outcome \in {"200", "non-200", "error", "timeout"} :
          /\ SendMessage(outcome)
          /\ UNCHANGED <<protVars, nextCleanup, clockVars, jwtVars, concVars, adminVars, pwVars>>
    \/ ControllerRespond /\ UNCHANGED <<protVars, nextCleanup, clockVars, jwtVars, concVars, adminVars, pwVars>>
    \/ \E r \in AuthSlots :
          /\ TrackLoginAttempt(r)
          /\ UNCHANGED <<nextCleanup, clockVars, jwtVars, extVars>>
    \/ \E d \in AuthTicks :
          /\ nticks < MaxTicks
          /\ Tick(d)
          /\ UNCHANGED <<protVars, nextCleanup, jwtVars, reqVars, extVars>>

SpecAuth == InitAuth /\ [][NextAuth]_vars

\* logins that carry one of two passwords, with the notifier enabled or not
NextNotify ==
    \/ \E r \in AuthSlots, ip \in IPs, username \in LoginUsers :
          /\ nreq < MaxNotifyRequests
          /\ Receive(r, ip, TRUE, username)
          /\ svc' = IF reqs[r].pc = "done" /\ svc.pc = "returned" /\ ~reqs[r].blocked
                    THEN [svc EXCEPT !.last = Outcome(svc, reqs[r])]
                    ELSE svc
          /\ UNCHANGED <<protVars, nextCleanup, clockVars, jwtVars, concVars,
                         telegramEnabled, adminVars, pwVars>>
    \/ \E r \in AuthSlots :
          /\ BruteForceProtection(r)
          /\ UNCHANGED <<protVars, nextCleanup, clockVars, jwtVars, extVars>>
    \/ \E r \in AuthSlots, password \in NotifyPasswords :
          /\ ControllerLogin(r, password)
          /\ UNCHANGED <<protVars, nextCleanup, clockVars, jwtVars, concVars, adminVars, pwVars>>
    \/ \E found \in BOOLEAN, subject \in Subjects :
          /\ GetByUsername(found, subject)
          /\ UNCHANGED <<protVars, nextCleanup, clockVars, jwtVars, concVars, adminVars, pwVars>>
    \/ \E outcome \in {"match", "mismatch", "error"} :
          /\ VerifyPasswordStep(outcome)
          /\ UNCHANGED <<protVars, nextCleanup, clockVars, jwtVars, concVars, adminVars, pwVars>>
    \/ \E ok \in BOOLEAN :
          /\ ServiceGenerateToken(ok)
          /\ UNCHANGED <<protVars, nextCleanup, clockVars, concVars, adminVars, pwVars>>
    \/ \E ok \in BOOLEAN :
          /\ ServiceGenerateRefreshToken(ok)
          /\ UNCHANGED <<protVars, nextCleanup, clockVars, jwtVars, concVars, adminVars, pwVars>>
    \/ \E outcome \in {"200", "non-200", "error", "timeout"} :
          /\ SendMessage(outcome)
          /\ UNCHANGED <<protVars, nextCleanup, clockVars, jwtVars, concVars, adminVars, pwVars>>
    \/ ControllerRespond /\ UNCHANGED <<protVars, nextCleanup, clockVars, jwtVars, concVars, adminVars, pwVars>>
    \/ \E r \in AuthSlots :
          /\ TrackLoginAttempt(r)
          /\ UNCHANGED <<nextCleanup, clockVars, jwtVars, extVars>>
    \/ \E d \in AuthTicks :
          /\ nticks < MaxNotifyTicks
          /\ Tick(d)
          /\ UNCHANGED <<protVars, nextCleanup, jwtVars, reqVars, extVars>>

SpecNotify == InitAuth /\ [][NextNotify]_vars

\* requests to admin routes while tokens are issued and secrets rotate
NextAdmin ==
    \/ \E subject \in Subjects :
          /\ Cardinality(tokens) < MaxAdminTokens
          /\ GenerateToken(subject)
          /\ UNCHANGED <<protVars, nextCleanup, clockVars, reqVars, extVars>>
    \/ rotateSecretsPeriodically /\ UNCHANGED <<protVars, nextCleanup, clockVars, reqVars, extVars>>
    \/ \E authHeader \in Headers(tokens \cup {ShortToken} \cup
                                   {t \in ForgedTokens : t.key = AttackerKey /\ t.exp > now}) :
          /\ AdminReceive(authHeader)
          /\ UNCHANGED <<protVars, nextCleanup, clockVars, jwtVars, reqVars,
                         concVars, svcVars, pwVars>>
    \/ Protected /\ UNCHANGED <<protVars, nextCleanup, clockVars, jwtVars, reqVars,
                                concVars, svcVars, pwVars>>
    \/ AdminOnly /\ UNCHANGED <<protVars, nextCleanup, clockVars, jwtVars, reqVars,
                                concVars, svcVars, pwVars>>
    \/ AdminHandler /\ UNCHANGED <<protVars, nextCleanup, clockVars, jwtVars, reqVars,
                                   concVars, svcVars, pwVars>>
    \/ \E d \in JWTTicks :
          /\ nticks < MaxAdminTicks
          /\ Tick(d)
          /\ UNCHANGED <<protVars, nextCleanup, jwtVars, reqVars, extVars>>

SpecAdmin == Init /\ [][NextAdmin]_vars

\* passwords hashed and verified
InitPasswords ==
    /\ InitClock
    /\ InitProtector
    /\ config = DefaultConfig
    /\ InitJWTManager
    /\ InitRequests
    /\ InitExt

NextPassword ==
    \/ \E password \in Passwords, salt \in Salts, ok \in BOOLEAN :
          /\ HashPasswordCall(password, salt, ok)
          /\ UNCHANGED <<protVars, nextCleanup, clockVars, jwtVars, reqVars,
                         concVars, svcVars, adminVars>>
    \/ \E candidate \in Passwords :
          /\ VerifyPasswordCall(candidate)
          /\ UNCHANGED <<protVars, nextCleanup, clockVars, jwtVars, reqVars,
                         concVars, svcVars, adminVars>>

SpecPassword == InitPasswords /\ [][NextPassword]_vars

\* passwords hashed, then verified against what the store returns
NextStored ==
    \/ \E password \in Passwords, salt \in Salts, ok \in BOOLEAN :
          /\ HashPasswordCall(password, salt, ok)
          /\ UNCHANGED <<protVars, nextCleanup, clockVars, jwtVars, reqVars,
                         concVars, svcVars, adminVars>>
    \/ \E kind \in StoredKinds :
          /\ LoadPassword(kind)
          /\ UNCHANGED <<protVars, nextCleanup, clockVars, jwtVars, reqVars,
                         concVars, svcVars, adminVars>>
    \/ \E candidate \in Passwords :
          /\ VerifyStoredPassword(candidate)
          /\ UNCHANGED <<protVars, nextCleanup, clockVars, jwtVars, reqVars,
                         concVars, svcVars, adminVars>>

SpecStored == InitPasswords /\ [][NextStored]_vars

\* login requests through the middleware chain, interleaved
NextLogin ==
    \/ \E r \in Slots, ip \in IPs, hasUsername \in BOOLEAN,
          username \in LoginUsers \cup {EmptyString} :
          /\ nreq < MaxRequests
          /\ hasUsername \/ username = EmptyString
          /\ Receive(r, ip, hasUsername, username)
          /\ UNCHANGED <<protVars, nextCleanup, clockVars, jwtVars, extVars>>
    \/ \E r \in Slots :
          /\ BruteForceProtection(r)
          /\ UNCHANGED <<protVars, nextCleanup, clockVars, jwtVars, extVars>>
    \/ \E r \in Slots, cred \in Credentials :
          /\ Login(r, cred)
          /\ UNCHANGED <<protVars, nextCleanup, clockVars, jwtVars, extVars>>
    \/ \E r \in Slots :
          /\ TrackLoginAttempt(r)
          /\ UNCHANGED <<nextCleanup, clockVars, jwtVars, extVars>>
    \/ \E d \in LoginTicks :
          /\ nticks < MaxTicks
          /\ Tick(d)
          /\ UNCHANGED <<protVars, nextCleanup, jwtVars, reqVars, extVars>>

SpecLogin == Init /\ [][NextLogin]_vars

\* concurrent logins to one account with a right or a wrong password,
\* and the sweep
NextRace ==
    \/ \E r \in Slots, ip \in IPs, username \in LoginUsers :
          /\ nreq < MaxRaceRequests
          /\ Receive(r, ip, TRUE, username)
          /\ UNCHANGED <<protVars, nextCleanup, clockVars, jwtVars, extVars>>
    \/ \E r \in Slots :
          /\ BruteForceProtection(r)
          /\ UNCHANGED <<protVars, nextCleanup, clockVars, jwtVars, extVars>>
    \/ \E r \in Slots, cred \in {"valid", "invalid"} :
          /\ Login(r, cred)
          /\ UNCHANGED <<protVars, nextCleanup, clockVars, jwtVars, extVars>>
    \/ \E r \in Slots :
          /\ TrackLoginAttempt(r)
          /\ UNCHANGED <<nextCleanup, clockVars, jwtVars, extVars>>
    \/ cleanup /\ UNCHANGED <<clockVars, jwtVars, reqVars, extVars>>
    \/ \E d \in RaceTicks :
          /\ nticks < MaxRaceTicks
          /\ Tick(d)
          /\ UNCHANGED <<protVars, nextCleanup, jwtVars, reqVars, extVars>>

SpecRace == Init /\ [][NextRace]_vars


\* ------------------------------------------------------------------
\* properties of the brute-force protector

\* C1: the account scope blocks at 5 failures from no record, with a
\* first block of 30 seconds from the 5th failure, and not before
\* (while the ip has fewer than 10 failures).
C1_AccountThreshold ==
    \A p \in Pairs :
        LET ip == p[1]
            u == p[2]
            h == acctHist[p]
        IN /\ (h.n \in 1..4 /\ ipHist[ip].n < 10) => ~IsBlocked(ip, u).blocked
           /\ h.n = 5 =>
                /\ Key(ip, u) \in DOMAIN attempts
                /\ attempts[Key(ip, u)].BlockedUntil = h.at + 30
                /\ (now < h.at + 30 => IsBlocked(ip, u).blocked)

C1_Witness ==
    \E p \in Pairs :
        /\ acctHist[p].n = 5
        /\ ipHist[p[1]].n < 10
        /\ now = acctHist[p].at + 15
        /\ IsBlocked(p[1], p[2]).blocked

\* C2: the IP-scope record counts every failure from the ip whatever the
\* identifier, never blocks below 10 failures, and at the 10th failure
\* blocks the ip for 60 seconds, for every identifier.
C2_IPThreshold ==
    \A ip \in IPs :
        LET h == ipHist[ip] IN
        /\ h.n > 0 => ip \in DOMAIN ipAttempts /\ ipAttempts[ip].FailedAttempts = h.n
        /\ h.n < 10 => ~(ip \in DOMAIN ipAttempts /\ ipAttempts[ip].BlockedUntil > now)
        /\ h.n = 10 =>
             /\ ipAttempts[ip].BlockedUntil = h.at + 60
             /\ (now < h.at + 60 => \A x \in Users : IsBlocked(ip, x).blocked)

C2_Witness ==
    \E ip \in IPs, x \in Users :
        /\ ipHist[ip].n = 10
        /\ acctHist[<<ip, x>>].n = 0
        /\ Key(ip, x) \notin DOMAIN attempts
        /\ now > ipHist[ip].at
        /\ IsBlocked(ip, x).blocked

\* C3: a failure that arrives while the record is blocked sets a block of
\* twice the length of the prior block (capped at 24 hours), counted from
\* that failure.
C3_DoublingRule ==
    [][/\ \A p \in Pairs :
            LET key == Key(p[1], p[2]) IN
            (/\ acctHist'[p].n = acctHist[p].n + 1
             /\ key \in DOMAIN attempts
             /\ attempts[key].BlockedUntil > now)
            => attempts'[key].BlockedUntil - now =
                  Min(2 * (attempts[key].BlockedUntil - attempts[key].LastFailedAt), 86400)
       /\ \A ip \in IPs :
            (/\ ipHist'[ip].n = ipHist[ip].n + 1
             /\ ip \in DOMAIN ipAttempts
             /\ ipAttempts[ip].BlockedUntil > now)
            => ipAttempts'[ip].BlockedUntil - now =
                  Min(2 * (ipAttempts[ip].BlockedUntil - ipAttempts[ip].LastFailedAt), 86400)]_vars

AccountBlockedNow(ip, u) ==
    Key(ip, u) \in DOMAIN attempts /\ attempts[Key(ip, u)].BlockedUntil > now

IPBlockedNow(ip) ==
    ip \in DOMAIN ipAttempts /\ ipAttempts[ip].BlockedUntil > now

\* C5: IsBlocked is true exactly when the account record or the ip record
\* has blocked_until strictly after now, returns (false, zero time)
\* otherwise, and its IP-scope part does not depend on the identifier.
C5_IsBlocked ==
    \A ip \in IPs, u \in Users :
        /\ IsBlocked(ip, u).blocked = (AccountBlockedNow(ip, u) \/ IPBlockedNow(ip))
        /\ ~IsBlocked(ip, u).blocked => IsBlocked(ip, u).until = ZeroTime
        /\ \A v \in Users :
              (~AccountBlockedNow(ip, u) /\ ~AccountBlockedNow(ip, v))
              => IsBlocked(ip, u) = IsBlocked(ip, v)

C5_Witness ==
    \E ip \in IPs, u \in Users :
        /\ Key(ip, u) \in DOMAIN attempts
        /\ attempts[Key(ip, u)].BlockedUntil = now
        /\ ~IsBlocked(ip, u).blocked

\* C6: RecordSuccessfulAttempt(ip, identifier) deletes only the account
\* record of that pair; the IP-scope map is unchanged and IsBlocked(ip, b)
\* is unchanged for every other identifier b.
C6_SuccessFrame ==
    [][\A ip \in IPs, u \in Users :
          (RecordSuccessfulAttempt(ip, u) /\ UNCHANGED <<nextCleanup, clockVars, jwtVars, reqVars>>) =>
            /\ ipAttempts' = ipAttempts
            /\ attempts' = Delete(attempts, Key(ip, u))
            /\ \A b \in Users \ {u} : IsBlocked(ip, b)' = IsBlocked(ip, b)]_vars

C6_Witness ==
    \E ip \in IPs, u \in Users, b \in Users :
        /\ u # b
        /\ nextCleanup = StartTime + cleanupInterval
        /\ Key(ip, u) \notin DOMAIN attempts
        /\ ipHist[ip].n > acctHist[<<ip, b>>].n
        /\ AccountBlockedNow(ip, b)
        /\ ~IPBlockedNow(ip)

\* C7: one run of cleanup deletes from each map exactly the records whose
\* block expired before now and whose last failure is more than 30 minutes
\* old; every other record is kept as it was.
C7_Sweep ==
    [][nextCleanup' # nextCleanup =>
          /\ DOMAIN attempts' =
                {k \in DOMAIN attempts :
                    ~(attempts[k].BlockedUntil < now /\ attempts[k].LastFailedAt + 1800 < now)}
          /\ \A k \in DOMAIN attempts' : attempts'[k] = attempts[k]
          /\ DOMAIN ipAttempts' =
                {k \in DOMAIN ipAttempts :
                    ~(ipAttempts[k].BlockedUntil < now /\ ipAttempts[k].LastFailedAt + 1800 < now)}
          /\ \A k \in DOMAIN ipAttempts' : ipAttempts'[k] = ipAttempts[k]]_vars

C7_Witness ==
    \E ip \in IPs, u \in Users :
        /\ nextCleanup # StartTime + cleanupInterval
        /\ ip \notin DOMAIN ipAttempts
        /\ Key(ip, u) \in DOMAIN attempts
        /\ attempts[Key(ip, u)].BlockedUntil > now
        /\ attempts[Key(ip, u)].LastFailedAt + 1800 < now

\* ------------------------------------------------------------------
\* properties of the login pipeline

C9_SecretPair ==
    LET n == Len(secretHist) IN
    /\ currentSecret # NoSecret
    /\ currentSecret = secretHist[n]
    /\ previousSecret = IF n = 1 THEN NoSecret ELSE secretHist[n - 1]
    /\ \A i \in 1 .. n - 2 : secretHist[i] \notin {currentSecret, previousSecret}

C9_Witness ==
    /\ Len(secretHist) = 3
    /\ previousSecret = secretHist[2]
    /\ previousSecret # NoSecret

\* rotations that happened since the token was signed
RotationsSince(token) == (Len(secretHist) - 1) - token.rotations

\* C10: an unexpired access token is accepted after exactly one rotation
\* since it was signed (under the previous secret) and rejected once a
\* second rotation has happened.
C10_GraceWindow ==
    \A token \in tokens :
        now < token.exp =>
            /\ RotationsSince(token) = 1 =>
                  (VerifyToken(token).ok /\ VerifyToken(token).secret = "previous")
            /\ RotationsSince(token) >= 2 => ~VerifyToken(token).ok

C10_Witness ==
    \E a \in tokens, b \in tokens :
        /\ now < a.exp /\ RotationsSince(a) = 2 /\ ~VerifyToken(a).ok
        /\ now < b.exp /\ RotationsSince(b) = 1 /\ VerifyToken(b).ok

\* C13: VerifyToken returns claims only for an unexpired token with an
\* HMAC signature valid under the secret that is current or previous at
\* the call, and the claims are the signed ones; a token signed with any
\* other key gets an error and no claims.
C13_VerificationSoundness ==
    \A token \in PresentedTokens :
        LET r == VerifyToken(token)
            held == {currentSecret, previousSecret} \ {NoSecret}
        IN /\ r.ok =>
                /\ now < token.exp
                /\ token.alg \in {"HS256", "HS384", "HS512"}
                /\ token.key \in held
                /\ r.claims = token.claims
           /\ token.key \notin held => (~r.ok /\ r.claims = << >>)

C13_Witness ==
    /\ Len(secretHist) = 3
    /\ \E token \in ForgedTokens :
          /\ token.alg = "HS256" /\ token.key = secretHist[1] /\ now < token.exp
          /\ ~VerifyToken(token).ok
    /\ \E token \in tokens : VerifyToken(token).ok /\ VerifyToken(token).secret = "previous"

\* C14: the rotation loop looks at the secret every half interval and
\* rotates only when the current secret is at least 7 days old; a
\* rotation installs a fresh 32-byte secret, moves the old current secret
\* into previous and sets secret_created_at to the time of the rotation.
C14_RotationTrigger ==
    [][/\ nextRotation' # nextRotation =>
             (now >= nextRotation /\ nextRotation' = nextRotation + 302400)
       /\ (currentSecret' # currentSecret \/ previousSecret' # previousSecret
             \/ secretCreatedAt' # secretCreatedAt) =>
             /\ nextRotation' # nextRotation
             /\ now - secretCreatedAt >= 604800
             /\ previousSecret' = currentSecret
             /\ currentSecret' \notin Range(secretHist)
             /\ currentSecret'.len = 32
             /\ secretCreatedAt' = now]_vars

C14_Witness ==
    /\ Len(secretHist) = 2
    /\ secretCreatedAt = now
    /\ currentSecret.len = 32
    /\ previousSecret = config.JWTSecret
    /\ nextRotation = StartTime + 3 * (rotationInterval \div 2)

\* ------------------------------------------------------------------
\* properties of the JWT manager under concurrency

\* C11: when the access-token lifetime is at most the rotation interval,
\* every issued access token is accepted by every verification that
\* parses it before its expiry, however issuance, rotation and
\* verification interleave.
C11_NoUnexpiredTokenInvalidated ==
    config.JWTExpiration <= rotationInterval =>
        /\ (ver.pc = "done" /\ ver.at < ver.token.exp) => ver.ok
        /\ ~mutex.writer =>
              \A token \in tokens : now < token.exp => VerifyToken(token).ok

C11_Witness ==
    /\ config.JWTExpiration = rotationInterval
    /\ ver.pc = "done" /\ ver.ok /\ ver.secret = "previous"
    /\ ver.at >= ver.token.iat + rotationInterval \div 2
    /\ ver.at < ver.token.exp

\* the (current, previous) pairs the manager has held between rotations
ManagerPairs ==
    {<<secretHist[e], IF e = 1 THEN NoSecret ELSE secretHist[e - 1]>> :
        e \in 1 .. Len(secretHist)}

\* C12: the (current, previous) pair one VerifyToken call works with is
\* the manager's pair of a single state outside a rotation, never the
\* current secret of one epoch with the previous secret of another.
C12_AtomicSnapshot ==
    ver.pc \in {"ParseWithClaims", "previous", "done"} =>
        <<ver.currentSecret, ver.previousSecret>> \in ManagerPairs

C12_Witness ==
    /\ ver.pc = "ParseWithClaims"
    /\ ver.previousSecret # NoSecret
    /\ ver.currentSecret = previousSecret
    /\ currentSecret # ver.currentSecret
    /\ mutex.writer

\* ------------------------------------------------------------------
\* properties of the login service

Decided == svc.pc \in {"httpClient.Post", "return", "returned"}

\* C15: Login returns tokens only if the user store returned a record and
\* VerifyPassword returned true without error (and both tokens were
\* generated); on every other path it returns an error and no tokens.
C15_TokensOnlyOnVerifiedCredentials ==
    /\ svc.access = "ok" => (svc.user = "found" /\ svc.verify = "match")
    /\ Decided =>
          /\ svc.tokens <=> (/\ svc.user = "found" /\ svc.verify = "match"
                             /\ svc.access = "ok" /\ svc.refresh = "ok")
          /\ svc.tokens <=> svc.err = NoError
    /\ svc.pc = "returned" =>
          /\ svc.status = 200 <=> svc.tokens
          /\ svc.body = IF svc.tokens THEN <<"access_token", "refresh_token", "user">>
                        ELSE <<"Invalid credentials">>

C15_Witness ==
    /\ svc.pc = "returned" /\ svc.tokens /\ svc.status = 200
    /\ svc.last.cause = "mismatch" /\ svc.last.status = 401
    /\ tokens # {}

ExpectedNotification ==
    IF svc.user = "notfound" THEN [op |-> "SendLoginFailure", reason |-> "User not found"]
    ELSE IF svc.verify = "error"
    THEN [op |-> "SendLoginFailure", reason |-> "Password verification error"]
    ELSE IF svc.verify = "mismatch"
    THEN [op |-> "SendLoginFailure", reason |-> "Invalid password"]
    ELSE IF svc.access = "error"
    THEN [op |-> "SendLoginFailure", reason |-> "Token generation error"]
    ELSE IF svc.refresh = "error"
    THEN [op |-> "SendLoginFailure", reason |-> "Refresh token generation error"]
    ELSE [op |-> "SendLoginSuccess", reason |-> ""]

\* C17: every invocation of Login calls the notifier exactly once before
\* it returns: SendLoginSuccess when tokens are issued, SendLoginFailure
\* with the reason of the path otherwise.
C17_NotifierOnEveryOutcome ==
    /\ svc.pc \in {"GetByUsername", "VerifyPassword", "GenerateToken",
                   "GenerateRefreshToken"} => svc.notified = << >>
    /\ Decided =>
          /\ svc.notified = <<ExpectedNotification>>
          /\ svc.notified[1].op = "SendLoginSuccess" <=> svc.tokens

C17_Witness ==
    /\ svc.pc = "returned"
    /\ svc.refresh = "error"
    /\ svc.notified = <<[op |-> "SendLoginFailure",
                         reason |-> "Refresh token generation error"]>>
    /\ svc.last.cause = "match"

\* C18: the notifier never blocks or fails the login path: Login spends
\* no time waiting for the notifier's network call, and its result is the
\* one decided before the notifier was called.
C18_NotifierNeverBlocks ==
    /\ svc.pc = "httpClient.Post" => now = svc.sentAt
    /\ svc.pc = "returned" =>
          /\ svc.tokens <=> svc.err = NoError
          /\ svc.status = IF svc.tokens THEN 200 ELSE 401

\* ------------------------------------------------------------------
\* properties of the admin routes

\* C19: an admin handler runs only for a request whose Authorization
\* header is "Bearer <token>" with a token VerifyToken accepts and an
\* is_admin claim that is true; without the header, with another scheme or
\* with a token that fails verification no handler runs; a verified token
\* with is_admin false gets 403 and no handler runs.
C19_AdminGating ==
    /\ [](LET h == adminReq.header IN
          /\ (adminReq.pc = "handler" \/ adminReq.handler) =>
                /\ HasBearerPrefix(h)
                /\ adminReq.verified
                /\ TrimBearerPrefix(h).claims.IsAdmin
          /\ adminReq.pc = "done" =>
                /\ (h = NoHeader \/ ~HasBearerPrefix(h) \/ ~adminReq.verified) =>
                      ~adminReq.handler
                /\ (adminReq.verified /\ ~TrimBearerPrefix(h).claims.IsAdmin) =>
                      (adminReq.status = 403 /\ ~adminReq.handler))
    /\ [][(adminReq'.pc # "Protected" /\ adminReq.pc = "Protected") =>
             (adminReq'.verified <=>
                (/\ HasBearerPrefix(adminReq.header)
                 /\ VerifyToken(TrimBearerPrefix(adminReq.header)).ok))]_vars

C19_Witness ==
    /\ adminReq.pc = "done"
    /\ adminReq.verified
    /\ ~adminReq.locals.is_admin
    /\ adminReq.status = 403
    /\ ~adminReq.handler
    /\ Len(secretHist) = 2

\* ------------------------------------------------------------------
\* properties of the password utility

\* C20: whatever salt HashPassword drew, VerifyPassword(P, HashPassword(P))
\* is (true, no error), and VerifyPassword(P2, HashPassword(P)) is
\* (false, no error) for every P2 different from P.
C20_HashVerifyRoundTrip ==
    pw.pc = "verified" =>
        /\ pw.result = [valid |-> (pw.candidate = pw.password), err |-> FALSE]
        /\ pw.decoded = [valid |-> (pw.candidate = pw.password), err |-> FALSE]

C20_Witness ==
    /\ pw.pc = "verified"
    /\ pw.password = <<36, 97>>
    /\ pw.candidate = pw.password
    /\ pw.salt = [i \in 1 .. saltLen |-> 255]
    /\ pw.result.valid /\ ~pw.result.err
    /\ Len(pw.hash) = 97

Argon2idTag == <<"a", "r", "g", "o", "n", "2", "i", "d">>

\* the condition under which the claim demands a rejection
MustReject(hash) ==
    LET parts == Split(hash) IN
    \/ Len(parts) # 6
    \/ parts[2] # Argon2idTag
    \/ parts[3] # <<"v", "=">> \o FormatInt(19)

\* C21: VerifyPassword returns an error, never true and never a panic,
\* for every stored string that does not split into exactly 6 segments,
\* whose algorithm tag is not "argon2id", or whose version is not 19.
C21_DecodeRejection ==
    (pw.pc = "checked" /\ MustReject(pw.hash)) =>
        /\ pw.result = [valid |-> FALSE, err |-> TRUE]
        /\ pw.decoded = [valid |-> FALSE, err |-> TRUE]
        /\ pw.panic = NoPanic

\* the part of C21 that the source keeps: the segment count is checked by
\* both implementations, tag and version by decodeHash
C21_SegmentCount ==
    pw.pc = "checked" =>
        /\ Len(Split(pw.hash)) # 6 =>
              /\ pw.result = [valid |-> FALSE, err |-> TRUE]
              /\ pw.panic = NoPanic
        /\ MustReject(pw.hash) =>
              /\ pw.decoded = [valid |-> FALSE, err |-> TRUE]
              /\ ~pw.panic.decoded

\* ------------------------------------------------------------------
\* the content of login notifications

\* what the notifier may depend on: the event type, the identifier, the
\* client IP, the user agent, the reason and the time
NotificationInputs(o) ==
    [event |-> o.notified, username |-> o.username, ip |-> o.ip,
     userAgent |-> o.userAgent, sentAt |-> o.sentAt]

\* C22: the message handed to the notifier is determined by the event
\* type, the identifier, the client IP, the user agent, the reason and the
\* time: two logins that differ only in the plaintext password produce the
\* same message, and the password is no part of the message.
C22_NotificationContent ==
    svc.message # << >> =>
        /\ \A i \in 1 .. Len(svc.message) : svc.message[i] # svc.password
        /\ (/\ svc.last.message # << >>
            /\ NotificationInputs(svc.last) = NotificationInputs(svc))
           => svc.last.message = svc.message

\* ------------------------------------------------------------------
\* further properties of the brute-force protector

\* C23: a record leaves its map only by RecordSuccessfulAttempt (account
\* scope) or by a sweep; while it exists its failure count never
\* decreases; and a failure that finds the record at or above its
\* threshold with the block run out blocks the scope again at once.
C23_RecordLifeCycle ==
    [][/\ \A p \in Pairs :
            LET key == Key(p[1], p[2]) IN
            key \in DOMAIN attempts =>
              /\ key \notin DOMAIN attempts' =>
                    \/ nextCleanup' # nextCleanup
                    \/ /\ attempts' = Delete(attempts, key)
                       /\ UNCHANGED <<ipAttempts, nextCleanup, clockVars>>
              /\ key \in DOMAIN attempts' =>
                    attempts'[key].FailedAttempts >= attempts[key].FailedAttempts
              /\ (/\ acctHist'[p].n = acctHist[p].n + 1
                  /\ attempts[key].FailedAttempts >= 5
                  /\ attempts[key].BlockedUntil <= now)
                 => /\ attempts'[key].FailedAttempts = attempts[key].FailedAttempts + 1
                    /\ attempts'[key].BlockedUntil > now
                    /\ IsBlocked(p[1], p[2])'.blocked
       /\ \A ip \in IPs :
            ip \in DOMAIN ipAttempts =>
              /\ ip \notin DOMAIN ipAttempts' => nextCleanup' # nextCleanup
              /\ ip \in DOMAIN ipAttempts' =>
                    ipAttempts'[ip].FailedAttempts >= ipAttempts[ip].FailedAttempts
              /\ (/\ ipHist'[ip].n = ipHist[ip].n + 1
                  /\ ipAttempts[ip].FailedAttempts >= 10
                  /\ ipAttempts[ip].BlockedUntil <= now)
                 => /\ ipAttempts'[ip].FailedAttempts = ipAttempts[ip].FailedAttempts + 1
                    /\ ipAttempts'[ip].BlockedUntil > now]_vars

\* five failures at the start, the block run out, no sweep yet, and a
\* sixth failure: blocked again for 30 seconds
C23_Witness ==
    \E p \in Pairs :
        LET key == Key(p[1], p[2]) IN
        /\ key \in DOMAIN attempts
        /\ nticks = 1
        /\ now = StartTime + failedAttemptsTimeout
        /\ nextCleanup = StartTime + cleanupInterval
        /\ attempts[key].FailedAttempts = 6
        /\ attempts[key].LastFailedAt = now
        /\ attempts[key].BlockedUntil = now + 30
        /\ IsBlocked(p[1], p[2]).blocked

\* C24: when IsBlocked(ip, identifier) returns (true, until), until is the
\* latest of the account-scope and IP-scope expiries that apply: with no
\* further failure recorded, IsBlocked returns false at every time at or
\* after until.
C24_RetryAfterSoundness ==
    /\ [](\A ip \in IPs, u \in Users :
            LET res == IsBlocked(ip, u) IN
            res.blocked =>
              /\ AccountBlockedNow(ip, u) => res.until >= attempts[Key(ip, u)].BlockedUntil
              /\ IPBlockedNow(ip) => res.until >= ipAttempts[ip].BlockedUntil)
    /\ [][\A ip \in IPs, u \in Users :
            (/\ IsBlocked(ip, u).blocked
             /\ UNCHANGED protVars
             /\ now' >= IsBlocked(ip, u).until)
            => ~IsBlocked(ip, u)'.blocked]_vars

\* C25: every failure that leaves a record at or above its threshold sets
\* blocked_until at least the initial duration of the scope after the
\* time of that failure: 30 seconds for the account scope, 60 seconds for
\* the IP scope, whether or not the record was blocked already.
C25_MinimumBlockLength ==
    [][/\ \A p \in Pairs :
            LET key == Key(p[1], p[2]) IN
            (/\ acctHist'[p].n = acctHist[p].n + 1
             /\ attempts'[key].FailedAttempts >= 5)
            => attempts'[key].BlockedUntil >= now + 30
       /\ \A ip \in IPs :
            (/\ ipHist'[ip].n = ipHist[ip].n + 1
             /\ ipAttempts'[ip].FailedAttempts >= 10)
            => ipAttempts'[ip].BlockedUntil >= now + 60]_vars

\* C26: RecordFailedAttempt never moves the blocked_until of a record that
\* continues to exist to an earlier time.
C26_ExpiryNeverEarlier ==
    [][/\ \A p \in Pairs :
            LET key == Key(p[1], p[2]) IN
            (/\ acctHist'[p].n = acctHist[p].n + 1
             /\ key \in DOMAIN attempts)
            => attempts'[key].BlockedUntil >= attempts[key].BlockedUntil
       /\ \A ip \in IPs :
            (/\ ipHist'[ip].n = ipHist[ip].n + 1
             /\ ip \in DOMAIN ipAttempts)
            => ipAttempts'[ip].BlockedUntil >= ipAttempts[ip].BlockedUntil]_vars

\* five failures at the start and a sixth 15 seconds into the block: the
\* expiry moved from 30 to 45 seconds after the start
C26_Witness ==
    \E p \in Pairs :
        LET key == Key(p[1], p[2]) IN
        /\ key \in DOMAIN attempts
        /\ nticks = 1
        /\ now = StartTime + 15
        /\ attempts[key].FailedAttempts = 6
        /\ attempts[key].LastFailedAt = now
        /\ attempts[key].BlockedUntil = StartTime + 45

\* ------------------------------------------------------------------
\* the login pipeline under concurrent requests

\* requests for (ip, username) whose wrong password has been verified by
\* the handler and whose failure is not recorded yet
Verified(ip, username) ==
    {r \in Slots : /\ reqs[r].pc = "TrackLoginAttempt"
                   /\ reqs[r].status = 401
                   /\ reqs[r].ip = ip
                   /\ reqs[r].username = username}

\* C27: between two points at which the account is clean at most 5
\* requests with a wrong password reach credential verification, however
\* the requests interleave; and while a block set after 5 recorded
\* failures is in force, a request at the block check is answered 429.
C27_BoundedGuesses ==
    /\ [](\A ip \in IPs, u \in LoginUsers :
            acctHist[<<ip, u>>].n + Cardinality(Verified(ip, u)) <= 5)
    /\ [][\A r \in Slots :
            LET q == reqs[r]
                key == Key(q.ip, q.username)
            IN (/\ q.pc = "BruteForceProtection"
                /\ reqs'[r].pc # "BruteForceProtection"
                /\ q.hasUsername
                /\ key \in DOMAIN attempts
                /\ attempts[key].FailedAttempts >= 5
                /\ attempts[key].BlockedUntil > now)
               => (reqs'[r].status = 429 /\ reqs'[r].pc = "done")]_vars

\* six wrong passwords verified within the first second, two of them by
\* requests that passed the block check together after four failures
C27_Race ==
    \E ip \in IPs, u \in LoginUsers :
        /\ now = StartTime
        /\ acctHist[<<ip, u>>].n = 4
        /\ Cardinality(Verified(ip, u)) = 2

\* C28: once the account record has blocked_until in the future,
\* IsBlocked stays true at every time before that blocked_until, whatever
\* requests and sweeps interleave; a request that passed the block check
\* before the block was set and then succeeds does not lift the block.
C28_BlockNotLiftedEarly ==
    [][\A ip \in IPs, u \in LoginUsers :
          LET key == Key(ip, u) IN
          (/\ key \in DOMAIN attempts
           /\ attempts[key].BlockedUntil > now
           /\ attempts[key].BlockedUntil > now')
          => IsBlocked(ip, u)'.blocked]_vars

\* ------------------------------------------------------------------
\* the key of the account-scope map

\* the account-scope record of a pair, if there is one
AccountRecord(ip, username) ==
    IF Key(ip, username) \in DOMAIN attempts
    THEN <<attempts[Key(ip, username)]>>
    ELSE << >>

\* C29: for any two distinct pairs (ip, identifier), colons in addresses
\* and identifiers included, RecordFailedAttempt and
\* RecordSuccessfulAttempt on one pair leave the account-scope record of
\* the other unchanged: the map key is injective.
C29_AccountRecordsIndependent ==
    [][\A p1 \in KeyPairs, p2 \in KeyPairs :
          (/\ p1 # p2
           /\ \/ RecordFailedAttempt(p1[1], p1[2])
              \/ RecordSuccessfulAttempt(p1[1], p1[2])
           /\ UNCHANGED <<nextCleanup, clockVars>>)
          => AccountRecord(p2[1], p2[2])' = AccountRecord(p2[1], p2[2])]_vars

\* ------------------------------------------------------------------
\* rejected tokens

\* C30: for every header "Bearer <t>" whose token fails VerifyToken,
\* whatever the length of t, Protected answers 401 and does not call the
\* next handler; no such request ends in a panic or a 5xx response.
C30_UniformRejection ==
    /\ [](adminReq.status < 500)
    /\ [][(/\ adminReq.pc = "Protected"
           /\ adminReq'.pc # "Protected"
           /\ HasBearerPrefix(adminReq.header)
           /\ ~VerifyToken(TrimBearerPrefix(adminReq.header)).ok)
          => /\ adminReq'.status = 401
             /\ adminReq'.pc = "done"
             /\ ~adminReq'.handler]_vars

====
